---- MODULE Spec2Model ----
(***************************************************************************)
(* A model of the AkbarLang-to-C++ compiler: lexer (compiler/lexer.js),    *)
(* token table (compiler/token.js, the second definition block of          *)
(* unnamed/part_004, which is the one the lexer's VALI/VA/YA kinds agree   *)
(* with), parser (part_003), semantic analyzer (compiler/semantic.js), IR  *)
(* generator (part_001), optimizer (part_002), C++ emitter                 *)
(* (compiler/generator.js) and driver (part_005).                          *)
(*                                                                         *)
(* JavaScript strings are sequences of one-character strings, so that the  *)
(* regular expressions and substring operations of the code are modelled   *)
(* character by character.  JavaScript numbers are exact rationals n/d;    *)
(* this is exact for integers and dyadic fractions, which is what the      *)
(* bounded inputs below contain.                                           *)
(***************************************************************************)
EXTENDS Integers, Sequences, FiniteSets, TLC

VARIABLES lexer, analyzer, optimizer, driver, machine

vars == <<lexer, analyzer, optimizer, driver, machine>>

(***************************************************************************)
(* Characters and JavaScript string helpers                                *)
(***************************************************************************)
Digits == {"0", "1", "2", "3", "4", "5", "6", "7", "8", "9"}

Lower == {"a", "b", "c", "d", "e", "f", "g", "h", "i", "j", "k", "l", "m", "n", "o", "p", "q", "r", "s", "t", "u", "v", "w", "x", "y", "z"}

Upper == {"A", "B", "C", "D", "E", "F", "G", "H", "I", "J", "K", "L", "M", "N", "O", "P", "Q", "R", "S", "T", "U", "V", "W", "X", "Y", "Z"}

NUL == "<NUL>"

Min(a, b) == IF a < b THEN a ELSE b

Max(a, b) == IF a > b THEN a ELSE b

\* String.prototype.substring(a, b): indices clamped to [0, length], swapped if a > b
Substring(s, a, b) ==
  LET a2 == Min(Max(a, 0), Len(s))
      b2 == Min(Max(b, 0), Len(s))
  IN SubSeq(s, Min(a2, b2) + 1, Max(a2, b2))

\* String.prototype.charAt(i): "" past the end (the empty sequence here)
CharAt(s, i) == IF i >= 0 /\ i < Len(s) THEN s[i + 1] ELSE ""

StartsWith(s, p) == Len(p) <= Len(s) /\ SubSeq(s, 1, Len(p)) = p

EndsWith(s, p) == Len(p) <= Len(s) /\ SubSeq(s, Len(s) - Len(p) + 1, Len(s)) = p

Includes(s, c) == \E i \in 1..Len(s) : s[i] = c

AllDigits(s) == \A i \in 1..Len(s) : s[i] \in Digits

\* first index i >= from (1-based) at which p occurs in s, 0 if none
IndexOf(s, p, from) ==
  LET hits == {i \in from..(Len(s) - Len(p) + 1) : SubSeq(s, i, i + Len(p) - 1) = p}
  IN IF hits = {} THEN 0 ELSE CHOOSE i \in hits : \A j \in hits : i <= j

RECURSIVE Concat(_)
Concat(ss) == IF ss = <<>> THEN <<>> ELSE Head(ss) \o Concat(Tail(ss))

(***************************************************************************)
(* JavaScript values: numbers (n/d in lowest terms, d > 0), the non-finite *)
(* numbers and strings, all of one record shape.                           *)
(***************************************************************************)
RECURSIVE GCD(_, _)
GCD(a, b) == IF b = 0 THEN a ELSE GCD(b, a % b)

Abs(n) == IF n < 0 THEN 0 - n ELSE n

Num(n, d) ==
  LET g == GCD(Abs(n), d)
  IN [k |-> "num", n |-> n \div g, d |-> d \div g, s |-> <<>>]

JsInt(n) == [k |-> "num", n |-> n, d |-> 1, s |-> <<>>]

Str(t) == [k |-> "str", n |-> 0, d |-> 1, s |-> t]

NaN == [k |-> "nan", n |-> 0, d |-> 1, s |-> <<>>]

Infinity(sign) == [k |-> "inf", n |-> sign, d |-> 1, s |-> <<>>]

DigitChar(i) == <<"0", "1", "2", "3", "4", "5", "6", "7", "8", "9">>[i + 1]

DigitVal(c) == CHOOSE i \in 0..9 : DigitChar(i) = c

RECURSIVE DigitsOf(_)
DigitsOf(n) == IF n < 10 THEN <<DigitChar(n)>> ELSE DigitsOf(n \div 10) \o <<DigitChar(n % 10)>>

RECURSIVE DigitsValue(_)
DigitsValue(s) == IF s = <<>> THEN 0 ELSE DigitsValue(SubSeq(s, 1, Len(s) - 1)) * 10 + DigitVal(s[Len(s)])

RECURSIVE Pow10(_)
Pow10(e) == IF e = 0 THEN 1 ELSE 10 * Pow10(e - 1)

\* the digits after the decimal point of r/d (0 <= r < d), at most MaxFracDigits
MaxFracDigits == 17

RECURSIVE FracDigits(_, _, _)
FracDigits(r, d, fuel) ==
  IF r = 0 \/ fuel = 0 THEN <<>>
  ELSE <<DigitChar((r * 10) \div d)>> \o FracDigits((r * 10) % d, d, fuel - 1)

\* Number.prototype.toString() / String.prototype.toString()
toString(v) ==
  CASE v.k = "str" -> v.s
    [] v.k = "nan" -> <<"N", "a", "N">>
    [] v.k = "inf" -> IF v.n < 0 THEN <<"-", "I", "n", "f", "i", "n", "i", "t", "y">> ELSE <<"I", "n", "f", "i", "n", "i", "t", "y">>
    [] OTHER ->
         LET a == Abs(v.n)
             sign == IF v.n < 0 THEN <<"-">> ELSE <<>>
             frac == FracDigits(a % v.d, v.d, MaxFracDigits)
         IN sign \o DigitsOf(a \div v.d) \o (IF frac = <<>> THEN <<>> ELSE <<".">> \o frac)

\* /^-?\d+$/
IsIntText(t) ==
  LET u == IF t # <<>> /\ t[1] = "-" THEN Tail(t) ELSE t
  IN u # <<>> /\ AllDigits(u)

\* /^-?\d+\.\d+$/
IsFloatText(t) ==
  LET u == IF t # <<>> /\ t[1] = "-" THEN Tail(t) ELSE t
      p == IndexOf(u, <<".">>, 1)
  IN /\ p > 1
     /\ p < Len(u)
     /\ AllDigits(SubSeq(u, 1, p - 1))
     /\ AllDigits(SubSeq(u, p + 1, Len(u)))

\* parseInt(t, 10) on text matching /^-?\d+$/
ParseInt(t) ==
  IF t[1] = "-" THEN JsInt(0 - DigitsValue(Tail(t))) ELSE JsInt(DigitsValue(t))

\* parseFloat(t) on text matching /^-?\d+\.\d+$/
ParseFloat(t) ==
  LET neg == t[1] = "-"
      u == IF neg THEN Tail(t) ELSE t
      p == IndexOf(u, <<".">>, 1)
      whole == DigitsValue(SubSeq(u, 1, p - 1))
      fr == SubSeq(u, p + 1, Len(u))
      scale == Pow10(Len(fr))
      m == whole * scale + DigitsValue(fr)
  IN Num(IF neg THEN 0 - m ELSE m, scale)

(***************************************************************************)
(* Token kinds and the keyword table (compiler/token.js)                   *)
(***************************************************************************)
Undefined == "undefined"

\* the members of the TokenType object; any other member reads as undefined
TokenType ==
  {"BEGIR", "BENVIS", "SAHIH", "ASHAR", "HARF", "AGE", "VALI", "VAGARNA", "BARAYE",
   "EQUAL", "PLUS", "MINUS", "MULTIPLY", "DIVIDE", "LESS_THAN", "GREATER_THAN",
   "LESS_EQUAL", "GREATER_EQUAL", "EQUAL_EQUAL", "NOT_EQUAL", "VA", "YA",
   "LEFT_PAREN", "RIGHT_PAREN", "LEFT_BRACE", "RIGHT_BRACE", "SEMICOLON", "COMMA",
   "QUOTE", "IDENTIFIER", "INTEGER", "FLOAT", "STRING", "CHARACTER", "EOF", "UNKNOWN"}

\* TokenType.<name>
TT(name) == IF name \in TokenType THEN name ELSE Undefined

\* properties every object literal inherits from Object.prototype (truthy values)
ObjectPrototypeKeys ==
  {<<"c", "o", "n", "s", "t", "r", "u", "c", "t", "o", "r">>, <<"t", "o", "S", "t", "r", "i", "n", "g">>, <<"v", "a", "l", "u", "e", "O", "f">>, <<"h", "a", "s", "O", "w", "n", "P", "r", "o", "p", "e", "r", "t", "y">>, <<"i", "s", "P", "r", "o", "t", "o", "t", "y", "p", "e", "O", "f">>,
   <<"p", "r", "o", "p", "e", "r", "t", "y", "I", "s", "E", "n", "u", "m", "e", "r", "a", "b", "l", "e">>, <<"t", "o", "L", "o", "c", "a", "l", "e", "S", "t", "r", "i", "n", "g">>, <<"_", "_", "p", "r", "o", "t", "o", "_", "_">>}

Inherited == "[object-prototype-member]"

\* Keywords[text]
Keywords(text) ==
  CASE text = <<"b", "e", "g", "i", "r">> -> TT("BEGIR")
    [] text = <<"b", "e", "n", "v", "i", "s">> -> TT("BENVIS")
    [] text = <<"s", "a", "h", "i", "h">> -> TT("SAHIH")
    [] text = <<"a", "s", "h", "a", "r">> -> TT("ASHAR")
    [] text = <<"h", "a", "r", "f">> -> TT("HARF")
    [] text = <<"a", "g", "e">> -> TT("AGE")
    [] text = <<"v", "a", "l", "i">> -> TT("VALI")
    [] text = <<"v", "a", "g", "a", "r", "n", "a">> -> TT("VAGARNA")
    [] text = <<"b", "a", "r", "a", "y", "e">> -> TT("BARAYE")
    [] text = <<"t", "a">> -> TT("TA")
    [] text = <<"v", "a">> -> TT("VA")
    [] text = <<"y", "a">> -> TT("YA")
    [] text \in ObjectPrototypeKeys -> Inherited
    [] OTHER -> Undefined

Token(type, value, line, column) == [type |-> type, value |-> value, line |-> line, column |-> column]

(***************************************************************************)
(* Lexer (compiler/lexer.js)                                               *)
(***************************************************************************)
NoError == <<>>

Lexer(source) ==
  [source |-> source, tokens |-> <<>>, start |-> 0, current |-> 0, line |-> 1, column |-> 1,
   error |-> NoError, done |-> FALSE]

isDigit(c) == c \in Digits

isAlpha(c) == c \in Lower \cup Upper \cup {"_"}

isAlphaNumeric(c) == isAlpha(c) \/ isDigit(c)

LexIsAtEnd(lx) == lx.current >= Len(lx.source)

LexPeek(lx) == IF LexIsAtEnd(lx) THEN NUL ELSE CharAt(lx.source, lx.current)

LexPeekNext(lx) == IF lx.current + 1 >= Len(lx.source) THEN NUL ELSE CharAt(lx.source, lx.current + 1)

LexAdvance(lx) == [lx EXCEPT !.current = @ + 1]

\* match(expected): the result and the lexer after it
LexMatch(lx, expected) ==
  IF LexIsAtEnd(lx) \/ CharAt(lx.source, lx.current) # expected
  THEN [ok |-> FALSE, lx |-> lx]
  ELSE [ok |-> TRUE, lx |-> LexAdvance(lx)]

LexError(lx, message) ==
  [lx EXCEPT !.error = <<[message |-> message, line |-> lx.line, column |-> lx.column]>>]

\* addToken(type, literal) with a literal that is not null
addTokenLiteral(lx, type, literal) ==
  [lx EXCEPT !.tokens = Append(@, Token(type, literal, lx.line, lx.column)),
             !.column = @ + (lx.current - lx.start)]

\* addToken(type): the value is the lexeme
addToken(lx, type) == addTokenLiteral(lx, type, Str(Substring(lx.source, lx.start, lx.current)))

RECURSIVE AdvanceWhileAlphaNumeric(_)
AdvanceWhileAlphaNumeric(lx) ==
  IF isAlphaNumeric(LexPeek(lx)) THEN AdvanceWhileAlphaNumeric(LexAdvance(lx)) ELSE lx

RECURSIVE AdvanceWhileDigit(_)
AdvanceWhileDigit(lx) == IF isDigit(LexPeek(lx)) THEN AdvanceWhileDigit(LexAdvance(lx)) ELSE lx

identifier(lx0) ==
  LET lx == AdvanceWhileAlphaNumeric(lx0)
      text == Substring(lx.source, lx.start, lx.current)
      kw == Keywords(text)
  IN IF /\ text = <<"v", "a", "l", "i">>
        /\ LexPeek(lx) = " "
        /\ Substring(lx.source, lx.current + 1, lx.current + 4) = <<"a", "g", "e">>
     THEN addToken([lx EXCEPT !.current = @ + 4], TT("VALI"))
     ELSE addToken(lx, IF kw = Undefined THEN TT("IDENTIFIER") ELSE kw)

number(lx0) ==
  LET lx1 == AdvanceWhileDigit(lx0)
      isFloat == LexPeek(lx1) = "." /\ isDigit(LexPeekNext(lx1))
      lx == IF isFloat THEN AdvanceWhileDigit(LexAdvance(lx1)) ELSE lx1
      value == Substring(lx.source, lx.start, lx.current)
  IN addTokenLiteral(lx, IF isFloat THEN TT("FLOAT") ELSE TT("INTEGER"),
                     IF isFloat THEN ParseFloat(value) ELSE ParseInt(value))

RECURSIVE StringBody(_)
StringBody(lx) ==
  IF LexPeek(lx) # "\"" /\ ~LexIsAtEnd(lx)
  THEN StringBody(LexAdvance(IF LexPeek(lx) = "\n"
                             THEN [lx EXCEPT !.line = @ + 1, !.column = 1]
                             ELSE lx))
  ELSE lx

string(lx0) ==
  LET lx == StringBody(lx0)
      closed == LexAdvance(lx)
  IN IF LexIsAtEnd(lx) THEN LexError(lx, "Unterminated string")
     ELSE addTokenLiteral(closed, TT("STRING"),
                          Str(Substring(closed.source, closed.start + 1, closed.current - 1)))

character(lx0) ==
  LET lx == LexAdvance(lx0)
      charValue == CharAt(lx0.source, lx0.current)
  IN IF LexIsAtEnd(lx0) THEN LexError(lx0, "Unterminated character")
     ELSE IF LexPeek(lx) # "'"
          THEN LexError(lx, "Character literal can only contain one character")
          ELSE addTokenLiteral(LexAdvance(lx), TT("CHARACTER"), Str(<<charValue>>))

RECURSIVE SkipComment(_)
SkipComment(lx) ==
  IF LexPeek(lx) # "\n" /\ ~LexIsAtEnd(lx) THEN SkipComment(LexAdvance(lx)) ELSE lx

\* case "v": match("a") && match("l") && match("i"), else match("a"), else identifier()
scanV(lx) ==
  LET m1 == LexMatch(lx, "a")
      m2 == LexMatch(m1.lx, "l")
      m3 == LexMatch(m2.lx, "i")
      vali == m1.ok /\ m2.ok /\ m3.ok
      after == IF ~m1.ok THEN m1.lx ELSE IF ~m2.ok THEN m2.lx ELSE m3.lx
      m4 == LexMatch(after, "a")
  IN IF vali THEN addToken(after, TT("VALI"))
     ELSE IF m4.ok THEN addToken(m4.lx, TT("VA"))
     ELSE identifier(m4.lx)

\* case "y"
scanY(lx) ==
  LET m == LexMatch(lx, "a")
  IN IF m.ok THEN addToken(m.lx, TT("YA")) ELSE identifier(m.lx)

\* one of "= < > !" followed or not by "="
scanTwo(lx, withEqual, alone) ==
  LET m == LexMatch(lx, "=")
  IN IF m.ok THEN addToken(m.lx, withEqual) ELSE addToken(m.lx, alone)

\* scanToken(), after tokenize() has set start = current
scanToken(lx0) ==
  LET c == CharAt(lx0.source, lx0.current)
      lx == LexAdvance(lx0)
  IN CASE c = "(" -> addToken(lx, TT("LEFT_PAREN"))
       [] c = ")" -> addToken(lx, TT("RIGHT_PAREN"))
       [] c = "{" -> addToken(lx, TT("LEFT_BRACE"))
       [] c = "}" -> addToken(lx, TT("RIGHT_BRACE"))
       [] c = ";" -> addToken(lx, TT("SEMICOLON"))
       [] c = "," -> addToken(lx, TT("COMMA"))
       [] c = "+" -> addToken(lx, TT("PLUS"))
       [] c = "-" -> addToken(lx, TT("MINUS"))
       [] c = "*" -> addToken(lx, TT("MULTIPLY"))
       [] c = "/" -> addToken(lx, TT("DIVIDE"))
       [] c = "=" -> scanTwo(lx, TT("EQUAL_EQUAL"), TT("EQUAL"))
       [] c = "<" -> scanTwo(lx, TT("LESS_EQUAL"), TT("LESS_THAN"))
       [] c = ">" -> scanTwo(lx, TT("GREATER_EQUAL"), TT("GREATER_THAN"))
       [] c = "!" -> scanTwo(lx, TT("NOT_EQUAL"), TT("UNKNOWN"))
       [] c = "v" -> scanV(lx)
       [] c = "y" -> scanY(lx)
       [] c = "\"" -> string(lx)
       [] c = "#" -> SkipComment(lx)
       [] c = "'" -> character(lx)
       [] c \in {" ", "\r", "\t"} -> [lx EXCEPT !.column = @ + 1]
       [] c = "\n" -> [lx EXCEPT !.line = @ + 1, !.column = 1]
       [] OTHER -> IF isDigit(c) THEN number(lx)
                   ELSE IF isAlpha(c) THEN identifier(lx)
                   ELSE LexError(lx, "Unexpected character")

\* one iteration of the loop of tokenize()
tokenizeStep(lx) == scanToken([lx EXCEPT !.start = lx.current])

\* a tokenize() that returns without pushing the EOF token
tokenizeEndWithoutEof(lx) == [lx EXCEPT !.done = TRUE]

\* the end of tokenize(): the EOF token
tokenizeEnd(lx) ==
  [lx EXCEPT !.tokens = Append(@, Token(TT("EOF"), Str(<<>>), lx.line, lx.column)), !.done = TRUE]

RECURSIVE tokenizeLoop(_)
tokenizeLoop(lx) ==
  IF lx.error # NoError THEN lx
  ELSE IF LexIsAtEnd(lx) THEN tokenizeEnd(lx)
  ELSE tokenizeLoop(tokenizeStep(lx))

\* new Lexer(source).tokenize(): the lexer at return or at the throw
tokenize(source) == tokenizeLoop(Lexer(source))

(***************************************************************************)
(* AST nodes (compiler/ast.js)                                             *)
(***************************************************************************)
Null == [node |-> "null", line |-> 0, column |-> 0]

\* the number 0 that primary() returns at end of input
Placeholder0 == [node |-> "0", line |-> 0, column |-> 0]

Program(statements) == [node |-> "Program", statements |-> statements, line |-> 1, column |-> 1]

VariableDeclaration(type, name, initializer, line, column) ==
  [node |-> "VariableDeclaration", type |-> type, name |-> name, initializer |-> initializer,
   line |-> line, column |-> column]

ExpressionStatement(expression, line, column) ==
  [node |-> "ExpressionStatement", expression |-> expression, line |-> line, column |-> column]

IfStatement(condition, thenBranch, elseBranch, line, column) ==
  [node |-> "IfStatement", condition |-> condition, thenBranch |-> thenBranch,
   elseBranch |-> elseBranch, line |-> line, column |-> column]

BlockStatement(statements, line, column) ==
  [node |-> "BlockStatement", statements |-> statements, line |-> line, column |-> column]

ForStatement(initializer, condition, increment, body, line, column) ==
  [node |-> "ForStatement", initializer |-> initializer, condition |-> condition,
   increment |-> increment, body |-> body, line |-> line, column |-> column]

BinaryExpression(left, operator, right, line, column) ==
  [node |-> "BinaryExpression", left |-> left, operator |-> operator, right |-> right,
   line |-> line, column |-> column]

UnaryExpression(operator, right, line, column) ==
  [node |-> "UnaryExpression", operator |-> operator, right |-> right, line |-> line, column |-> column]

AssignmentExpression(name, value, line, column) ==
  [node |-> "AssignmentExpression", name |-> name, value |-> value, line |-> line, column |-> column]

VariableExpression(name, line, column) ==
  [node |-> "VariableExpression", name |-> name, line |-> line, column |-> column]

LiteralExpression(value, type, line, column) ==
  [node |-> "LiteralExpression", value |-> value, type |-> type, line |-> line, column |-> column]

InputExpression(variable, line, column) ==
  [node |-> "InputExpression", variable |-> variable, line |-> line, column |-> column]

OutputExpression(expression, line, column) ==
  [node |-> "OutputExpression", expression |-> expression, line |-> line, column |-> column]

(***************************************************************************)
(* Parser (compiler/parser.js).  A parser value holds `tokens`, `current`, *)
(* the error thrown (if any) and `vals`, the values that the running       *)
(* methods hold in their locals: consumed tokens, finished nodes and       *)
(* statement lists, the latest last.  A method on a parser that has thrown *)
(* does nothing.                                                           *)
(***************************************************************************)
Parser(tokens) == [tokens |-> tokens, current |-> 0, vals |-> <<>>, error |-> NoError]

Failed(p) == p.error # NoError

\* error(token, message): the thrown parse error
ParseError(p, token, message) ==
  [p EXCEPT !.error = <<[message |-> message, line |-> token.line, column |-> token.column]>>]

peek(p) == p.tokens[p.current + 1]

previous(p) == p.tokens[p.current]

isAtEnd(p) == peek(p).type = TT("EOF")

check(p, type) == IF isAtEnd(p) THEN FALSE ELSE peek(p).type = type

checkNext(p, type) ==
  IF isAtEnd(p) THEN FALSE
  ELSE IF p.current + 1 >= Len(p.tokens) THEN FALSE
  ELSE p.tokens[p.current + 2].type = type

\* match(...types): whether it matches; the caller then advances
match(p, types) == \E type \in types : check(p, type)

\* advance() after a successful match
Advance(p) == [p EXCEPT !.current = @ + 1]

\* advance() keeping the token, as previous() gives it
Take(p) == [p EXCEPT !.current = @ + 1, !.vals = Append(@, peek(p))]

Hold(p, v) == IF Failed(p) THEN p ELSE [p EXCEPT !.vals = Append(@, v)]

\* the k-th latest value held
Top(p, k) == p.vals[Len(p.vals) - k + 1]

\* the k latest values replaced by v
Reduce(p, k, v) == [p EXCEPT !.vals = Append(SubSeq(@, 1, Len(@) - k), v)]

\* a consume() that goes on without the token
consumeAnyway(p, type, message) ==
  IF Failed(p) THEN p
  ELSE IF check(p, type) THEN Take(p)
  ELSE Hold(p, peek(p))

consume(p, type, message) ==
  IF Failed(p) THEN p
  ELSE IF check(p, type) THEN Take(p)
  ELSE ParseError(p, peek(p), message)

\* while (this.check(TokenType.COMMENT)) this.advance();
RECURSIVE skipComments(_)
skipComments(p) ==
  IF Failed(p) THEN p
  ELSE IF check(p, TT("COMMENT")) THEN skipComments(Advance(p)) ELSE p

RECURSIVE statement(_), expression(_), ifStatement(_), blockLoop(_), unary(_)
RECURSIVE logicalRest(_), equalityRest(_), comparisonRest(_), termRest(_), factorRest(_)

\* new Literal / new Variable from the token just taken
primaryNode(p) ==
  LET token == Top(p, 1)
  IN Reduce(p, 1, IF token.type = TT("IDENTIFIER")
                  THEN VariableExpression(token.value.s, token.line, token.column)
                  ELSE LiteralExpression(token.value, token.type, token.line, token.column))

\* the grouping: ( expression )
grouping(p) == IF Failed(p) THEN p ELSE Reduce(p, 2, Top(p, 2))

primaryAt(p) ==
  IF Failed(p) THEN p
  ELSE IF match(p, {TT("INTEGER"), TT("FLOAT"), TT("STRING"), TT("CHARACTER"), TT("IDENTIFIER")})
  THEN primaryNode(Take(p))
  ELSE IF match(p, {TT("LEFT_PAREN")})
  THEN grouping(consume(expression(Advance(p)), TT("RIGHT_PAREN"), "Expect ')' after expression."))
  ELSE IF peek(p).type = TT("EOF") THEN Hold(p, Placeholder0)
  ELSE ParseError(p, peek(p), "Expect expression.")

primary(p) == primaryAt(skipComments(p))

\* new Unary(operator, right)
unaryNode(p) ==
  IF Failed(p) THEN p
  ELSE Reduce(p, 2, UnaryExpression(Top(p, 2), Top(p, 1), Top(p, 2).line, Top(p, 2).column))

unary(p) ==
  IF Failed(p) THEN p
  ELSE IF match(p, {TT("MINUS")}) \/ match(p, {TT("BANG")}) THEN unaryNode(unary(Take(p)))
  ELSE primary(p)

\* new Binary(expr, operator, right)
binaryNode(p) ==
  IF Failed(p) THEN p
  ELSE Reduce(p, 3, BinaryExpression(Top(p, 3), Top(p, 2), Top(p, 1), Top(p, 2).line, Top(p, 2).column))

factorRest(p) ==
  IF Failed(p) \/ ~match(p, {TT("MULTIPLY"), TT("DIVIDE")}) THEN p
  ELSE factorRest(binaryNode(unary(Take(p))))

factor(p) == factorRest(unary(p))

\* a loop of term() that groups to the right
termRestRightToLeft(p) ==
  IF Failed(p) \/ ~match(p, {TT("PLUS"), TT("MINUS")}) THEN p
  ELSE binaryNode(termRest(factor(Take(p))))

termRest(p) ==
  IF Failed(p) \/ ~match(p, {TT("PLUS"), TT("MINUS")}) THEN p
  ELSE termRest(binaryNode(factor(Take(p))))

term(p) == termRest(factor(p))

comparisonRest(p) ==
  IF Failed(p) \/ ~match(p, {TT("LESS_THAN"), TT("GREATER_THAN"), TT("LESS_EQUAL"), TT("GREATER_EQUAL")})
  THEN p
  ELSE comparisonRest(binaryNode(term(Take(p))))

comparison(p) == comparisonRest(term(p))

equalityRest(p) ==
  IF Failed(p) \/ ~match(p, {TT("EQUAL_EQUAL"), TT("NOT_EQUAL")}) THEN p
  ELSE equalityRest(binaryNode(comparison(Take(p))))

equality(p) == equalityRest(comparison(p))

logicalRest(p) ==
  IF Failed(p) \/ ~match(p, {TT("VA"), TT("YA")}) THEN p
  ELSE logicalRest(binaryNode(equality(Take(p))))

logical(p) == logicalRest(equality(p))

\* new Assignment(variable.value, value)
assignmentNode(p) ==
  IF Failed(p) THEN p
  ELSE Reduce(p, 3, AssignmentExpression(Top(p, 3).value.s, Top(p, 1), Top(p, 3).line, Top(p, 3).column))

expressionAt(p) ==
  IF Failed(p) THEN p
  ELSE IF checkNext(p, TT("EQUAL"))
  THEN assignmentNode(expression(consume(consume(p, TT("IDENTIFIER"), "Expect variable name."),
                                         TT("EQUAL"), "Expect '=' after variable name.")))
  ELSE logical(p)

expression(p) == expressionAt(skipComments(p))

\* the optional initializer of a declaration
initializer(p) ==
  IF Failed(p) THEN p
  ELSE IF match(p, {TT("EQUAL")}) THEN expression(Advance(p))
  ELSE Hold(p, Null)

\* new VariableDeclaration(type.type, name.value, initializer)
variableDeclarationNode(p) ==
  IF Failed(p) THEN p
  ELSE Reduce(p, 4, VariableDeclaration(Top(p, 4).type, Top(p, 3).value.s, Top(p, 2),
                                        Top(p, 3).line, Top(p, 3).column))

\* variableDeclaration(), entered after match() took the type keyword
variableDeclaration(p) ==
  variableDeclarationNode(
    consume(initializer(consume(p, TT("IDENTIFIER"), "Expect variable name.")),
            TT("SEMICOLON"), "Expect ';' after variable declaration."))

inputStatementNode(p) ==
  IF Failed(p) THEN p
  ELSE Reduce(p, 4, ExpressionStatement(InputExpression(Top(p, 3).value.s, Top(p, 3).line, Top(p, 3).column),
                                        Top(p, 3).line, Top(p, 3).column))

inputStatement(p) ==
  inputStatementNode(
    consume(consume(consume(consume(p, TT("LEFT_PAREN"), "Expect '(' after 'begir'."),
                            TT("IDENTIFIER"), "Expect variable name in input statement."),
                    TT("RIGHT_PAREN"), "Expect ')' after variable name in input statement."),
            TT("SEMICOLON"), "Expect ';' after input statement."))

outputStatementNode(p) ==
  IF Failed(p) THEN p
  ELSE Reduce(p, 4, ExpressionStatement(OutputExpression(Top(p, 3), Top(p, 3).line, Top(p, 3).column),
                                        Top(p, 3).line, Top(p, 3).column))

outputStatement(p) ==
  outputStatementNode(
    consume(consume(expression(consume(p, TT("LEFT_PAREN"), "Expect '(' after 'benvis'.")),
                    TT("RIGHT_PAREN"), "Expect ')' after expression in output statement."),
            TT("SEMICOLON"), "Expect ';' after output statement."))

expressionStatementNode(p) ==
  IF Failed(p) THEN p
  ELSE Reduce(p, 2, ExpressionStatement(Top(p, 2), Top(p, 2).line, Top(p, 2).column))

expressionStatement(p) ==
  expressionStatementNode(consume(expression(p), TT("SEMICOLON"), "Expect ';' after expression."))

\* an if statement that never takes an alternative
elseBranchNever(p) == Hold(p, Null)

\* the alternative of an if statement, null if there is none
elseBranch(p) ==
  IF Failed(p) THEN p
  ELSE IF check(p, TT("VALI"))
  THEN (IF match(Advance(p), {TT("AGE")}) THEN ifStatement(Advance(Advance(p)))
        ELSE statement(Advance(p)))
  ELSE IF check(p, TT("VAGARNA")) THEN statement(Advance(p))
  ELSE Hold(p, Null)

ifStatementNode(p) ==
  IF Failed(p) THEN p
  ELSE Reduce(p, 5, IfStatement(Top(p, 4), Top(p, 2), Top(p, 1), Top(p, 4).line, Top(p, 4).column))

ifStatement(p) ==
  ifStatementNode(
    elseBranch(statement(consume(expression(consume(p, TT("LEFT_PAREN"), "Expect '(' after 'age'.")),
                                 TT("RIGHT_PAREN"), "Expect ')' after if condition."))))

\* the first clause of a for statement
forInitializer(p) ==
  IF Failed(p) THEN p
  ELSE IF match(p, {TT("SAHIH"), TT("ASHAR"), TT("HARF")}) THEN variableDeclaration(Take(p))
  ELSE expressionStatement(p)

forStatementNode(p) ==
  IF Failed(p) THEN p
  ELSE Reduce(p, 7, ForStatement(Top(p, 6), Top(p, 5), Top(p, 3), Top(p, 1), Top(p, 6).line, Top(p, 6).column))

forStatement(p) ==
  forStatementNode(
    statement(
      consume(expression(consume(expression(forInitializer(consume(p, TT("LEFT_PAREN"),
                                                                   "Expect '(' after 'baraye'."))),
                                 TT("SEMICOLON"), "Expect ';' after condition in for loop.")),
              TT("RIGHT_PAREN"), "Expect ')' after for loop clauses.")))

\* ast.js exports no WhileStatement, so `new WhileStatement` throws
whileStatementNode(p) ==
  IF Failed(p) THEN p
  ELSE ParseError(p, peek(p), "TypeError: WhileStatement is not a constructor")

whileStatement(p) ==
  whileStatementNode(
    statement(consume(expression(consume(p, TT("LEFT_PAREN"), "Expect '(' after 'vaghti'.")),
                      TT("RIGHT_PAREN"), "Expect ')' after while condition.")))

\* statements.push(statement)
pushStatement(p) == IF Failed(p) THEN p ELSE Reduce(p, 2, Append(Top(p, 2), Top(p, 1)))

\* the body of the loop of blockStatement(), after its skipComments
blockItem(p) ==
  IF Failed(p) \/ check(p, TT("RIGHT_BRACE")) \/ isAtEnd(p) THEN p ELSE pushStatement(statement(p))

blockLoop(p) ==
  IF Failed(p) \/ check(p, TT("RIGHT_BRACE")) \/ isAtEnd(p) THEN p
  ELSE blockLoop(blockItem(skipComments(p)))

blockStatementNode(p) ==
  IF Failed(p) THEN p
  ELSE Reduce(p, 3, BlockStatement(Top(p, 2), Top(p, 3).line, Top(p, 3).column))

\* blockStatement(), entered after match() took the left brace
blockStatement(p) ==
  blockStatementNode(consume(blockLoop(Hold(p, <<>>)), TT("RIGHT_BRACE"), "Expect '}' after block."))

statementAt(p) ==
  IF Failed(p) THEN p
  ELSE IF match(p, {TT("SAHIH"), TT("ASHAR"), TT("HARF")}) THEN variableDeclaration(Take(p))
  ELSE IF match(p, {TT("BEGIR")}) THEN inputStatement(Advance(p))
  ELSE IF match(p, {TT("BENVIS")}) THEN outputStatement(Advance(p))
  ELSE IF match(p, {TT("AGE"), TT("VALI"), TT("VAGARNA")}) THEN ifStatement(Advance(p))
  ELSE IF match(p, {TT("BARAYE")}) THEN forStatement(Advance(p))
  ELSE IF match(p, {TT("VAGHTI")}) THEN whileStatement(Advance(p))
  ELSE IF match(p, {TT("LEFT_BRACE")}) THEN blockStatement(Take(p))
  ELSE expressionStatement(p)

statement(p) == statementAt(skipComments(p))

\* the body of the second loop of parse(), after its skipComments
parseItem(p) == IF Failed(p) \/ isAtEnd(p) THEN p ELSE pushStatement(statement(p))

RECURSIVE parseLoop(_)
parseLoop(p) ==
  IF Failed(p) \/ isAtEnd(p) THEN p ELSE parseLoop(parseItem(skipComments(p)))

\* new Parser(tokens).parse(): the parser at return, or at the throw
parseRun(tokens) == parseLoop(Hold(skipComments(Parser(tokens)), <<>>))

\* what parse() returns: new Program(statements)
parseResult(p) ==
  [ok |-> ~Failed(p), node |-> IF Failed(p) THEN Null ELSE Program(Top(p, 1)), error |-> p.error]

parse(tokens) == parseResult(parseRun(tokens))

(***************************************************************************)
(* Semantic analyzer (compiler/semantic.js).  An analyzer value holds the  *)
(* fields `variables` (a Map, here a function on the declared names) and   *)
(* `errors`.                                                               *)
(***************************************************************************)
SemanticAnalyzer == [variables |-> <<>>, errors |-> <<>>]

MapHas(m, key) == key \in DOMAIN m

MapSet(m, key, value) == [x \in (DOMAIN m) \cup {key} |-> IF x = key THEN value ELSE m[x]]

Message(text, name, types) == [text |-> text, name |-> name, types |-> types]

\* an addError() that keeps the first diagnostic only
addErrorOnce(an, message, line) ==
  IF an.errors # <<>> THEN an ELSE [an EXCEPT !.errors = Append(@, [message |-> message, line |-> line])]

\* this.errors.push({ message, line })
addError(an, message, line) ==
  [an EXCEPT !.errors = Append(@, [message |-> message, line |-> line])]

isNumeric(type) == type \in {"INTEGER", "FLOAT", "SAHIH", "ASHAR"}

isBoolean(type) == TRUE

\* a compatibility without the widening of an integer to a float
isTypeCompatibleNoWidening(targetType, sourceType) ==
  \/ targetType = sourceType
  \/ targetType = "SAHIH" /\ sourceType = "INTEGER"
  \/ targetType = "INTEGER" /\ sourceType = "SAHIH"
  \/ targetType = "ASHAR" /\ sourceType = "FLOAT"
  \/ targetType = "FLOAT" /\ sourceType = "ASHAR"
  \/ targetType = "HARF" /\ sourceType = "CHARACTER"
  \/ targetType = "CHARACTER" /\ sourceType = "HARF"

isTypeCompatible(targetType, sourceType) ==
  \/ targetType = sourceType
  \/ targetType = "SAHIH" /\ sourceType = "INTEGER"
  \/ targetType = "INTEGER" /\ sourceType = "SAHIH"
  \/ targetType = "ASHAR" /\ sourceType = "FLOAT"
  \/ targetType = "FLOAT" /\ sourceType = "ASHAR"
  \/ targetType = "ASHAR" /\ sourceType \in {"SAHIH", "INTEGER"}
  \/ targetType = "FLOAT" /\ sourceType \in {"SAHIH", "INTEGER"}
  \/ targetType = "HARF" /\ sourceType = "CHARACTER"
  \/ targetType = "CHARACTER" /\ sourceType = "HARF"

\* the JavaScript null that the type getters return
NullType == "null"

getLiteralType(an, expr) == expr.type

getVariableType(an, expr) ==
  IF MapHas(an.variables, expr.name) THEN an.variables[expr.name].type ELSE NullType

RECURSIVE getExpressionType(_, _)

getBinaryExpressionType(an, expr) ==
  LET leftType == getExpressionType(an, expr.left)
      rightType == getExpressionType(an, expr.right)
      op == expr.operator.type
  IN IF leftType = NullType \/ rightType = NullType THEN NullType
     ELSE IF op \in {"PLUS", "MINUS", "MULTIPLY", "DIVIDE"}
     THEN (IF leftType = "FLOAT" \/ rightType = "FLOAT" THEN "FLOAT" ELSE "INTEGER")
     ELSE IF op \in {"EQUAL_EQUAL", "NOT_EQUAL", "LESS_THAN", "GREATER_THAN", "LESS_EQUAL", "GREATER_EQUAL"}
     THEN "INTEGER"
     ELSE NullType

getUnaryExpressionType(an, expr) ==
  LET rightType == getExpressionType(an, expr.right)
  IN IF rightType = NullType THEN NullType
     ELSE IF expr.operator.type = "MINUS" THEN rightType
     ELSE NullType

getExpressionType(an, expr) ==
  CASE expr.node \in {"null", "0"} -> NullType
    [] expr.node = "LiteralExpression" -> getLiteralType(an, expr)
    [] expr.node = "VariableExpression" -> getVariableType(an, expr)
    [] expr.node = "BinaryExpression" -> getBinaryExpressionType(an, expr)
    [] expr.node = "UnaryExpression" -> getUnaryExpressionType(an, expr)
    [] OTHER -> NullType

RECURSIVE SemVisitExpression(_, _)

SemVisitBinaryExpression(an0, expr) ==
  LET an == SemVisitExpression(SemVisitExpression(an0, expr.left), expr.right)
      leftType == getExpressionType(an, expr.left)
      rightType == getExpressionType(an, expr.right)
      op == expr.operator.type
      requires == Message("Operator requires numeric operands", expr.operator.value.s, <<>>)
  IN IF leftType = NullType \/ rightType = NullType THEN an
     ELSE IF op \in {"PLUS", "MINUS", "MULTIPLY", "DIVIDE"}
     THEN (IF ~isNumeric(leftType) \/ ~isNumeric(rightType)
           THEN addError(an, requires, expr.line) ELSE an)
     ELSE IF op \in {"EQUAL_EQUAL", "NOT_EQUAL"}
     THEN (IF ~isTypeCompatible(leftType, rightType)
           THEN addError(an, Message("Cannot compare values of types", <<>>, <<leftType, rightType>>),
                         expr.line)
           ELSE an)
     ELSE IF op \in {"LESS_THAN", "GREATER_THAN", "LESS_EQUAL", "GREATER_EQUAL"}
     THEN (IF ~isNumeric(leftType) \/ ~isNumeric(rightType)
           THEN addError(an, requires, expr.line) ELSE an)
     ELSE an

SemVisitUnaryExpression(an0, expr) ==
  LET an == SemVisitExpression(an0, expr.right)
      rightType == getExpressionType(an, expr.right)
  IN IF rightType # NullType /\ expr.operator.type = "MINUS" /\ ~isNumeric(rightType)
     THEN addError(an, Message("Unary operator '-' requires a numeric operand", <<>>, <<>>), expr.line)
     ELSE an

SemVisitAssignmentExpression(an0, expr) ==
  LET declared == MapHas(an0.variables, expr.name)
      an1 == IF ~declared
             THEN addError(an0, Message("Variable is not declared", expr.name, <<>>), expr.line)
             ELSE [an0 EXCEPT !.variables[expr.name].initialized = TRUE]
      an == SemVisitExpression(an1, expr.value)
      variableType == an.variables[expr.name].type
      valueType == getExpressionType(an, expr.value)
  IN IF MapHas(an.variables, expr.name)
        /\ valueType # NullType /\ ~isTypeCompatible(variableType, valueType)
     THEN addError(an, Message("Cannot assign a value of type to a variable of type", <<>>,
                               <<valueType, variableType>>), expr.line)
     ELSE an

SemVisitVariableExpression(an, expr) ==
  IF ~MapHas(an.variables, expr.name)
  THEN addError(an, Message("Variable is not declared", expr.name, <<>>), expr.line)
  ELSE IF ~an.variables[expr.name].initialized
  THEN addError(an, Message("Variable is not initialized", expr.name, <<>>), expr.line)
  ELSE an

SemVisitInputExpression(an, expr) ==
  IF ~MapHas(an.variables, expr.variable)
  THEN addError(an, Message("Variable is not declared", expr.variable, <<>>), expr.line)
  ELSE [an EXCEPT !.variables[expr.variable].initialized = TRUE]

SemVisitOutputExpression(an, expr) == SemVisitExpression(an, expr.expression)

SemVisitExpression(an, expr) ==
  CASE expr.node \in {"null", "0"} -> an
    [] expr.node = "BinaryExpression" -> SemVisitBinaryExpression(an, expr)
    [] expr.node = "UnaryExpression" -> SemVisitUnaryExpression(an, expr)
    [] expr.node = "AssignmentExpression" -> SemVisitAssignmentExpression(an, expr)
    [] expr.node = "VariableExpression" -> SemVisitVariableExpression(an, expr)
    [] expr.node = "LiteralExpression" -> an
    [] expr.node = "InputExpression" -> SemVisitInputExpression(an, expr)
    [] expr.node = "OutputExpression" -> SemVisitOutputExpression(an, expr)
    [] OTHER -> an

\* a declaration that enters its name in the table after its initializer is checked
SemVisitVariableDeclarationLate(an0, decl) ==
  LET an1 == IF MapHas(an0.variables, decl.name)
             THEN addError(an0, Message("Variable is already declared", decl.name, <<>>),
                           decl.line)
             ELSE an0
      an2 == SemVisitExpression(an1, decl.initializer)
      initializerType == getExpressionType(an2, decl.initializer)
      an3 == IF decl.initializer # Null /\ initializerType # NullType
                /\ ~isTypeCompatible(decl.type, initializerType)
             THEN addError(an2, Message("Cannot initialize variable of type with a value of type",
                                        <<>>, <<decl.type, initializerType>>), decl.line)
             ELSE an2
  IN [an3 EXCEPT !.variables =
        MapSet(@, decl.name, [type |-> decl.type, initialized |-> decl.initializer # Null])]

SemVisitVariableDeclaration(an0, decl) ==
  LET an1 == IF MapHas(an0.variables, decl.name)
             THEN addError(an0, Message("Variable is already declared", decl.name, <<>>),
                           decl.line)
             ELSE an0
      an2 == [an1 EXCEPT !.variables =
                MapSet(@, decl.name,
                       [type |-> decl.type, initialized |-> decl.initializer # Null])]
      an == SemVisitExpression(an2, decl.initializer)
      initializerType == getExpressionType(an, decl.initializer)
  IN IF decl.initializer = Null THEN an2
     ELSE IF initializerType # NullType /\ ~isTypeCompatible(decl.type, initializerType)
     THEN addError(an, Message("Cannot initialize variable of type with a value of type", <<>>,
                               <<decl.type, initializerType>>), decl.line)
     ELSE an

SemVisitExpressionStatement(an, stmt) == SemVisitExpression(an, stmt.expression)

RECURSIVE SemVisitStatement(_, _), SemVisitStatements(_, _)

SemVisitIfStatement(an0, stmt) ==
  LET an1 == SemVisitExpression(an0, stmt.condition)
      conditionType == getExpressionType(an1, stmt.condition)
      an2 == IF conditionType # NullType /\ ~isBoolean(conditionType)
             THEN addError(an1, Message("Condition must be a boolean expr", <<>>, <<>>), stmt.line)
             ELSE an1
      an3 == SemVisitStatement(an2, stmt.thenBranch)
  IN IF stmt.elseBranch # Null THEN SemVisitStatement(an3, stmt.elseBranch) ELSE an3

SemVisitBlockStatement(an, stmt) == SemVisitStatements(an, stmt.statements)

SemVisitForStatement(an0, stmt) ==
  LET an1 == SemVisitStatement(an0, stmt.initializer)
      an2 == SemVisitExpression(an1, stmt.condition)
      conditionType == getExpressionType(an2, stmt.condition)
      an3 == IF conditionType # NullType /\ ~isBoolean(conditionType)
             THEN addError(an2, Message("For loop condition must be a boolean expr", <<>>, <<>>),
                           stmt.line)
             ELSE an2
      an4 == SemVisitExpression(an3, stmt.increment)
  IN SemVisitStatement(an4, stmt.body)

SemVisitStatement(an, stmt) ==
  CASE stmt.node = "VariableDeclaration" -> SemVisitVariableDeclaration(an, stmt)
    [] stmt.node = "ExpressionStatement" -> SemVisitExpressionStatement(an, stmt)
    [] stmt.node = "IfStatement" -> SemVisitIfStatement(an, stmt)
    [] stmt.node = "BlockStatement" -> SemVisitBlockStatement(an, stmt)
    [] stmt.node = "ForStatement" -> SemVisitForStatement(an, stmt)
    [] OTHER -> an

\* statements.forEach(s => this.visitStatement(s))
SemVisitStatements(an, statements) ==
  IF statements = <<>> THEN an
  ELSE SemVisitStatements(SemVisitStatement(an, Head(statements)), Tail(statements))

SemVisitProgram(an, program) == SemVisitStatements(an, program.statements)

\* the end of analyze(): the Error thrown, or none
analyzeThrow(an) ==
  IF Len(an.errors) > 0
  THEN <<[message |-> [e \in 1..Len(an.errors) |-> an.errors[e].message], lineNumber |-> an.errors[1].line]>>
  ELSE NoError

\* new SemanticAnalyzer().analyze(ast): the analyzer after the visit and what it throws
analyze(ast) ==
  LET an == SemVisitProgram(SemanticAnalyzer, ast)
  IN [analyzer |-> an, thrown |-> analyzeThrow(an)]

(***************************************************************************)
(* IR generator (compiler/intermediate.js).  A generator value holds the   *)
(* fields `instructions`, `labelCount` and `tempCount`; an expression      *)
(* visit returns the generator and the place of the result.                *)
(***************************************************************************)
IntermediateInstruction(op, args) == [op |-> op, args |-> args]

IntermediateGenerator == [instructions |-> <<>>, labelCount |-> 0, tempCount |-> 0]

\* the JavaScript null that visitExpression returns for a missing expression
NullPlace == <<"<null>">>

Push(g, instr) == [g EXCEPT !.instructions = Append(@, instr)]

Placed(g, place) == [g |-> g, place |-> place]

\* generateTemp(): `t${this.tempCount++}`
generateTemp(g) == Placed([g EXCEPT !.tempCount = @ + 1], <<"t">> \o DigitsOf(g.tempCount))

BinaryOpcode(tokenType) ==
  CASE tokenType = "PLUS" -> "ADD"
    [] tokenType = "MINUS" -> "SUB"
    [] tokenType = "MULTIPLY" -> "MUL"
    [] tokenType = "DIVIDE" -> "DIV"
    [] tokenType = "EQUAL_EQUAL" -> "EQ"
    [] tokenType = "NOT_EQUAL" -> "NEQ"
    [] tokenType = "LESS_THAN" -> "LT"
    [] tokenType = "GREATER_THAN" -> "GT"
    [] tokenType = "LESS_EQUAL" -> "LE"
    [] tokenType = "GREATER_EQUAL" -> "GE"
    [] tokenType = "VA" -> "AND"
    [] tokenType = "YA" -> "OR"
    [] OTHER -> "UNKNOWN"

CppType(type) ==
  CASE type = "SAHIH" -> <<"i", "n", "t">>
    [] type = "ASHAR" -> <<"f", "l", "o", "a", "t">>
    [] type = "HARF" -> <<"c", "h", "a", "r">>
    [] OTHER -> <<"a", "u", "t", "o">>

RECURSIVE GenVisitExpression(_, _)

GenVisitBinaryExpression(g, expr) ==
  LET left == GenVisitExpression(g, expr.left)
      right == GenVisitExpression(left.g, expr.right)
      result == generateTemp(right.g)
  IN Placed(Push(result.g, IntermediateInstruction(BinaryOpcode(expr.operator.type),
                                                   <<result.place, left.place, right.place>>)),
            result.place)

GenVisitUnaryExpression(g, expr) ==
  LET right == GenVisitExpression(g, expr.right)
      result == generateTemp(right.g)
  IN IF expr.operator.type = "MINUS"
     THEN Placed(Push(result.g, IntermediateInstruction("NEG", <<result.place, right.place>>)), result.place)
     ELSE result

GenVisitAssignmentExpression(g, expr) ==
  LET value == GenVisitExpression(g, expr.value)
  IN Placed(Push(value.g, IntermediateInstruction("ASSIGN", <<expr.name, value.place>>)), expr.name)

GenVisitVariableExpression(g, expr) == Placed(g, expr.name)

GenVisitLiteralExpression(g, expr) ==
  LET result == generateTemp(g)
      valueStr == IF expr.type = "STRING" THEN <<"\"">> \o toString(expr.value) \o <<"\"">>
                  ELSE IF expr.type = "CHARACTER" THEN <<"'">> \o toString(expr.value) \o <<"'">>
                  ELSE toString(expr.value)
  IN Placed(Push(result.g, IntermediateInstruction("LOAD", <<result.place, valueStr>>)), result.place)

GenVisitInputExpression(g, expr) ==
  Placed(Push(g, IntermediateInstruction("INPUT", <<expr.variable>>)), expr.variable)

GenVisitOutputExpression(g, expr) ==
  LET value == GenVisitExpression(g, expr.expression)
  IN Placed(Push(value.g, IntermediateInstruction("OUTPUT", <<value.place>>)), value.place)

GenVisitExpression(g, expr) ==
  CASE expr.node \in {"null", "0"} -> Placed(g, NullPlace)
    [] expr.node = "BinaryExpression" -> GenVisitBinaryExpression(g, expr)
    [] expr.node = "UnaryExpression" -> GenVisitUnaryExpression(g, expr)
    [] expr.node = "AssignmentExpression" -> GenVisitAssignmentExpression(g, expr)
    [] expr.node = "VariableExpression" -> GenVisitVariableExpression(g, expr)
    [] expr.node = "LiteralExpression" -> GenVisitLiteralExpression(g, expr)
    [] expr.node = "InputExpression" -> GenVisitInputExpression(g, expr)
    [] expr.node = "OutputExpression" -> GenVisitOutputExpression(g, expr)
    [] OTHER -> Placed(g, NullPlace)

GenVisitVariableDeclaration(g, decl) ==
  LET cppType == CppType(decl.type)
      value == GenVisitExpression(g, decl.initializer)
  IN IF decl.initializer = Null
     THEN Push(g, IntermediateInstruction("DECLARE", <<cppType, decl.name>>))
     ELSE Push(value.g, IntermediateInstruction("DECLARE_INIT", <<cppType, decl.name, value.place>>))

GenVisitExpressionStatement(g, stmt) == GenVisitExpression(g, stmt.expression).g

RECURSIVE GenVisitStatement(_, _), GenVisitStatements(_, _)

GenVisitIfStatement(g, stmt) ==
  LET condition == GenVisitExpression(g, stmt.condition)
      g1 == Push(condition.g, IntermediateInstruction("IF_BEGIN", <<condition.place>>))
      g2 == GenVisitStatement(g1, stmt.thenBranch)
      g3 == IF stmt.elseBranch # Null
            THEN GenVisitStatement(Push(g2, IntermediateInstruction("ELSE", <<>>)), stmt.elseBranch)
            ELSE g2
  IN Push(g3, IntermediateInstruction("IF_END", <<>>))

GenVisitBlockStatement(g, stmt) ==
  Push(GenVisitStatements(Push(g, IntermediateInstruction("SCOPE_BEGIN", <<>>)), stmt.statements),
       IntermediateInstruction("SCOPE_END", <<>>))

GenVisitForStatement(g, stmt) ==
  LET init == <<"i", "n", "t", " ", "i", " ", "=", " ", "1">>
      condition == <<"i", " ", "<", "=", " ", "n">>
      increment == <<"i", " ", "=", " ", "i", " ", "+", " ", "1">>
      g1 == Push(g, IntermediateInstruction("FOR_LOOP_START", <<init, condition, increment>>))
      g2 == IF stmt.body.node = "BlockStatement"
            THEN GenVisitStatements(g1, stmt.body.statements)
            ELSE GenVisitStatement(g1, stmt.body)
  IN Push(g2, IntermediateInstruction("FOR_LOOP_END", <<>>))

GenVisitStatement(g, stmt) ==
  CASE stmt.node = "VariableDeclaration" -> GenVisitVariableDeclaration(g, stmt)
    [] stmt.node = "ExpressionStatement" -> GenVisitExpressionStatement(g, stmt)
    [] stmt.node = "IfStatement" -> GenVisitIfStatement(g, stmt)
    [] stmt.node = "BlockStatement" -> GenVisitBlockStatement(g, stmt)
    [] stmt.node = "ForStatement" -> GenVisitForStatement(g, stmt)
    [] OTHER -> g

GenVisitStatements(g, statements) ==
  IF statements = <<>> THEN g
  ELSE GenVisitStatements(GenVisitStatement(g, Head(statements)), Tail(statements))

GenVisitProgram(g, program) ==
  LET g1 == Push(g, IntermediateInstruction("INCLUDE", <<<<"i", "o", "s", "t", "r", "e", "a", "m">>>>))
      g2 == Push(g1, IntermediateInstruction("INCLUDE", <<<<"s", "t", "r", "i", "n", "g">>>>))
      g3 == Push(g2, IntermediateInstruction("MAIN_BEGIN", <<>>))
      g4 == GenVisitStatements(g3, program.statements)
  IN Push(g4, IntermediateInstruction("MAIN_END", <<>>))

\* new IntermediateGenerator().generate(ast): the generator at return
generate(ast) == GenVisitProgram(IntermediateGenerator, ast)

(***************************************************************************)
(* JavaScript operators on values, as the optimizer applies them           *)
(***************************************************************************)
\* the printable ASCII characters in code order, from the space (32); the grave
\* accent (96) is left out
Ascii ==
  <<" ", "!", "\"", "#", "$", "%", "&", "'", "(", ")", "*", "+", ",", "-", ".", "/",
    "0", "1", "2", "3", "4", "5", "6", "7", "8", "9", ":", ";", "<", "=", ">", "?", "@",
    "A", "B", "C", "D", "E", "F", "G", "H", "I", "J", "K", "L", "M", "N", "O", "P", "Q", "R", "S",
    "T", "U", "V", "W", "X", "Y", "Z", "[", "\\", "]", "^", "_", "",
    "a", "b", "c", "d", "e", "f", "g", "h", "i", "j", "k", "l", "m", "n", "o", "p", "q", "r", "s",
    "t", "u", "v", "w", "x", "y", "z", "{", "|", "}", "~">>

CharCode(c) ==
  CASE c = "\t" -> 9
    [] c = "\n" -> 10
    [] c = "\r" -> 13
    [] OTHER -> 31 + (CHOOSE i \in 1..Len(Ascii) : Ascii[i] = c)

\* a < b on strings
RECURSIVE TextLess(_, _)
TextLess(a, b) ==
  IF b = <<>> THEN FALSE
  ELSE IF a = <<>> THEN TRUE
  ELSE IF a[1] = b[1] THEN TextLess(Tail(a), Tail(b))
  ELSE CharCode(a[1]) < CharCode(b[1])

\* Number(v) for the strings that are a plain integer or decimal, or empty
ToNumber(v) ==
  IF v.k # "str" THEN v
  ELSE IF v.s = <<>> THEN JsInt(0)
  ELSE IF IsIntText(v.s) THEN ParseInt(v.s)
  ELSE IF IsFloatText(v.s) THEN ParseFloat(v.s)
  ELSE NaN

Sign(n) == IF n < 0 THEN 0 - 1 ELSE IF n > 0 THEN 1 ELSE 0

NumNeg(a) ==
  CASE a.k = "num" -> Num(0 - a.n, a.d)
    [] a.k = "inf" -> Infinity(0 - a.n)
    [] OTHER -> NaN

NumAdd(a, b) ==
  CASE a.k = "nan" \/ b.k = "nan" -> NaN
    [] a.k = "inf" /\ b.k = "inf" -> IF a.n = b.n THEN a ELSE NaN
    [] a.k = "inf" -> a
    [] b.k = "inf" -> b
    [] OTHER -> Num(a.n * b.d + b.n * a.d, a.d * b.d)

NumMul(a, b) ==
  CASE a.k = "nan" \/ b.k = "nan" -> NaN
    [] a.k = "inf" \/ b.k = "inf" ->
         IF Sign(a.n) * Sign(b.n) = 0 THEN NaN ELSE Infinity(Sign(a.n) * Sign(b.n))
    [] OTHER -> Num(a.n * b.n, a.d * b.d)

NumDiv(a, b) ==
  CASE a.k = "nan" \/ b.k = "nan" -> NaN
    [] a.k = "inf" /\ b.k = "inf" -> NaN
    [] a.k = "inf" -> Infinity(IF Sign(b.n) < 0 THEN 0 - a.n ELSE a.n)
    [] b.k = "inf" -> JsInt(0)
    [] b.n = 0 -> IF a.n = 0 THEN NaN ELSE Infinity(Sign(a.n))
    [] OTHER -> Num(a.n * b.d * Sign(b.n), a.d * Abs(b.n))

NumLess(a, b) ==
  CASE a.k = "nan" \/ b.k = "nan" -> FALSE
    [] a.k = "inf" /\ b.k = "inf" -> a.n < b.n
    [] a.k = "inf" -> a.n < 0
    [] b.k = "inf" -> b.n > 0
    [] OTHER -> a.n * b.d < b.n * a.d

\* a + b
JsAdd(a, b) ==
  IF a.k = "str" \/ b.k = "str" THEN Str(toString(a) \o toString(b))
  ELSE NumAdd(a, b)

JsSub(a, b) == NumAdd(ToNumber(a), NumNeg(ToNumber(b)))

JsMul(a, b) == NumMul(ToNumber(a), ToNumber(b))

JsDiv(a, b) == NumDiv(ToNumber(a), ToNumber(b))

\* a === b
JsStrictEquals(a, b) == a.k # "nan" /\ a = b

\* a < b
JsLess(a, b) ==
  IF a.k = "str" /\ b.k = "str" THEN TextLess(a.s, b.s)
  ELSE NumLess(ToNumber(a), ToNumber(b))

\* a <= b
JsLessEq(a, b) ==
  IF a.k = "str" /\ b.k = "str" THEN ~TextLess(b.s, a.s)
  ELSE LET x == ToNumber(a)
           y == ToNumber(b)
       IN x.k # "nan" /\ y.k # "nan" /\ ~NumLess(y, x)

Bit(b) == IF b THEN JsInt(1) ELSE JsInt(0)

(***************************************************************************)
(* Optimizer (compiler/optimizer.js)                                       *)
(***************************************************************************)
\* args[i] (0-based); reading past the end gives undefined
UndefinedArg == <<"<undefined>">>

Arg(instr, i) == IF i < Len(instr.args) THEN instr.args[i + 1] ELSE UndefinedArg

LastArg(instr) == Arg(instr, Len(instr.args) - 1)

isArithmeticOp(op) == op \in {"ADD", "SUB", "MUL", "DIV", "EQ", "NEQ", "LT", "GT", "LE", "GE"}

\* the dot of a regular expression matches no line terminator
NoLineTerminator(t) == \A i \in 1..Len(t) : t[i] \notin {"\n", "\r"}

\* /^".*"$/
IsStringLiteral(t) ==
  Len(t) >= 2 /\ t[1] = "\"" /\ t[Len(t)] = "\"" /\ NoLineTerminator(SubSeq(t, 2, Len(t) - 1))

\* /^'.'$/
IsCharLiteral(t) == Len(t) = 3 /\ t[1] = "'" /\ t[3] = "'" /\ t[2] \notin {"\n", "\r"}

isConstant(value) ==
  /\ value \notin {UndefinedArg, NullPlace}
  /\ (IsIntText(value) \/ IsFloatText(value) \/ IsStringLiteral(value) \/ IsCharLiteral(value))

getConstantValue(value) ==
  IF IsIntText(value) THEN ParseInt(value)
  ELSE IF IsFloatText(value) THEN ParseFloat(value)
  ELSE IF IsStringLiteral(value) THEN (IF Len(value) <= 2 THEN Str(<<>>) ELSE Str(SubSeq(value, 2, Len(value) - 1)))
  ELSE IF IsCharLiteral(value) THEN (IF Len(value) <= 2 THEN Str(<<>>) ELSE Str(SubSeq(value, 2, Len(value) - 1)))
  ELSE Str(value)

isVariable(value) == value \notin {UndefinedArg, NullPlace} /\ ~isConstant(value)

\* a switch that takes every opcode for ADD
FoldValueAsSum(op, value1, value2) == JsAdd(value1, value2)

\* the switch of constantFolding over the opcode
FoldValue(op, value1, value2) ==
  CASE op = "ADD" -> JsAdd(value1, value2)
    [] op = "SUB" -> JsSub(value1, value2)
    [] op = "MUL" -> JsMul(value1, value2)
    [] op = "DIV" -> JsDiv(value1, value2)
    [] op = "EQ" -> Bit(JsStrictEquals(value1, value2))
    [] op = "NEQ" -> Bit(~JsStrictEquals(value1, value2))
    [] op = "LT" -> Bit(JsLess(value1, value2))
    [] op = "GT" -> Bit(JsLess(value2, value1))
    [] op = "LE" -> Bit(JsLessEq(value1, value2))
    [] op = "GE" -> Bit(JsLessEq(value2, value1))

\* one iteration of the loop of constantFolding: the map and the result after it
FoldStep(st, instr) ==
  LET constants == st.constants
      arg1 == Arg(instr, 1)
      arg2 == Arg(instr, 2)
      dest == Arg(instr, 0)
      keep == [st EXCEPT !.result = Append(@, instr)]
      folded(value) ==
        [constants |-> MapSet(constants, dest, value),
         result |-> Append(st.result, [op |-> "LOAD", args |-> <<dest, toString(value)>>])]
  IN CASE isArithmeticOp(instr.op) ->
            IF isConstant(arg1) /\ isConstant(arg2)
            THEN folded(FoldValue(instr.op, getConstantValue(arg1), getConstantValue(arg2)))
            ELSE IF MapHas(constants, arg1) /\ MapHas(constants, arg2)
            THEN folded(FoldValue(instr.op, constants[arg1], constants[arg2]))
            ELSE keep
       [] instr.op = "LOAD" ->
            IF isConstant(arg1)
            THEN [keep EXCEPT !.constants = MapSet(constants, dest, getConstantValue(arg1))]
            ELSE keep
       [] instr.op = "ASSIGN" ->
            IF MapHas(constants, arg1)
            THEN [keep EXCEPT !.constants = MapSet(constants, dest, constants[arg1])]
            ELSE keep
       [] instr.op = "NEG" ->
            IF isConstant(arg1) THEN folded(NumNeg(ToNumber(getConstantValue(arg1))))
            ELSE IF MapHas(constants, arg1) THEN folded(NumNeg(ToNumber(constants[arg1])))
            ELSE keep
       [] OTHER -> keep

RECURSIVE FoldLoop(_, _)
FoldLoop(st, instructions) ==
  IF instructions = <<>> THEN st ELSE FoldLoop(FoldStep(st, Head(instructions)), Tail(instructions))

constantFolding(instructions) == FoldLoop([constants |-> <<>>, result |-> <<>>], instructions).result

\* the first pass of removeDeadCode: the operands after the first of every OUTPUT
\* and ASSIGN that are variables
usedVars(instructions) ==
  {v \in UNION {{instructions[k].args[i] : i \in 2..Len(instructions[k].args)} :
                  k \in {j \in 1..Len(instructions) : instructions[j].op \in {"OUTPUT", "ASSIGN"}}} :
     isVariable(v)}

\* the labels that JUMP and JUMP_IF_FALSE instructions name
jumpTargets(instructions) ==
  {LastArg(instructions[k]) : k \in {j \in 1..Len(instructions) : instructions[j].op \in {"JUMP", "JUMP_IF_FALSE"}}}

\* the second pass of removeDeadCode from instruction i on
RECURSIVE DeadLoop(_, _, _, _)
DeadLoop(instructions, i, reachable0, result) ==
  IF i > Len(instructions) THEN result
  ELSE LET instr == instructions[i]
           reachable == IF instr.op = "LABEL" /\ Arg(instr, 0) \in jumpTargets(instructions)
                        THEN TRUE ELSE reachable0
       IN IF ~reachable /\ instr.op # "LABEL" THEN DeadLoop(instructions, i + 1, reachable, result)
          ELSE IF instr.op = "DECLARE" /\ Arg(instr, 1) \notin usedVars(instructions)
          THEN DeadLoop(instructions, i + 1, reachable, result)
          ELSE DeadLoop(instructions, i + 1, IF instr.op = "JUMP" THEN FALSE ELSE reachable,
                        Append(result, instr))

removeDeadCode(instructions) == DeadLoop(instructions, 1, TRUE, <<>>)

\* the index (1-based) of the first LABEL named target, 0 if there is none
FindLabel(instructions, target) ==
  LET hits == {j \in 1..Len(instructions) :
                 instructions[j].op = "LABEL" /\ Arg(instructions[j], 0) = target}
  IN IF hits = {} THEN 0 ELSE CHOOSE j \in hits : \A h \in hits : j <= h

\* the second pass of optimizeControlFlow from instruction i on; `instructions` is
\* the input array, whose JUMP records the pass rewrites in place
RECURSIVE FlowLoop(_, _, _, _)
FlowLoop(instructions, usedLabels, i, result) ==
  IF i > Len(instructions) THEN [result |-> result, input |-> instructions]
  ELSE LET instr == instructions[i]
           targetIndex == FindLabel(instructions, Arg(instr, 0))
           threaded == /\ instr.op = "JUMP"
                       /\ targetIndex # 0
                       /\ targetIndex + 1 <= Len(instructions)
                       /\ instructions[targetIndex + 1].op = "JUMP"
           rewritten == [instr EXCEPT !.args[1] = Arg(instructions[targetIndex + 1], 0)]
           mutated == IF threaded THEN [instructions EXCEPT ![i] = rewritten] ELSE instructions
       IN IF instr.op = "LABEL" /\ Arg(instr, 0) \notin usedLabels
          THEN FlowLoop(instructions, usedLabels, i + 1, result)
          ELSE IF /\ instr.op = "JUMP"
                  /\ i + 1 <= Len(instructions)
                  /\ instructions[i + 1].op = "LABEL"
                  /\ Arg(instr, 0) = Arg(instructions[i + 1], 0)
          THEN FlowLoop(instructions, usedLabels, i + 1, result)
          ELSE FlowLoop(mutated, usedLabels, i + 1, Append(result, mutated[i]))

\* a first pass that collects the labels of the JUMP instructions only
optimizeControlFlowRunJumpsOnly(instructions) ==
  FlowLoop(instructions,
           {LastArg(instructions[k]) : k \in {j \in 1..Len(instructions) : instructions[j].op = "JUMP"}},
           1, <<>>)

\* optimizeControlFlow(instructions): the list returned and the input array after the call
optimizeControlFlowRun(instructions) == FlowLoop(instructions, jumpTargets(instructions), 1, <<>>)

optimizeControlFlow(instructions) == optimizeControlFlowRun(instructions).result

optimize(instructions) == optimizeControlFlow(removeDeadCode(constantFolding(instructions)))

\* the instruction objects of an array, each with its identity: the passes push the
\* objects of their input on their result, and only a folded LOAD is a new object
Tagged(instructions) ==
  [k \in 1..Len(instructions) |-> [op |-> instructions[k].op, args |-> instructions[k].args, id |-> k]]

\* the array passed to optimize() after the call: the third pass has rewritten, in
\* place, the JUMP objects that it threads, and they are objects of this array
optimizeInput(instructions) ==
  LET shared == optimizeControlFlowRun(removeDeadCode(constantFolding(Tagged(instructions)))).input
      objects == {m \in 1..Len(shared) : "id" \in DOMAIN shared[m]}
  IN [k \in 1..Len(instructions) |->
        IF \E m \in objects : shared[m].id = k
        THEN [op |-> instructions[k].op, args |-> shared[CHOOSE m \in objects : shared[m].id = k].args]
        ELSE instructions[k]]

(***************************************************************************)
(* CodeGenerator (compiler/generator.js)                                   *)
(***************************************************************************)
\* an operand inside a template literal
ArgText(a) ==
  IF a = UndefinedArg THEN <<"u", "n", "d", "e", "f", "i", "n", "e", "d">> ELSE IF a = NullPlace THEN <<"n", "u", "l", "l">> ELSE a

\* /^t\d+$/
IsTempName(a) == Len(a) >= 2 /\ a[1] = "t" /\ AllDigits(Tail(a))

CodeGenerator == [code |-> <<>>, indentLevel |-> 0, tempVars |-> <<>>, variables |-> <<>>, error |-> NoError]

RECURSIVE Repeat(_, _)
Repeat(t, n) == IF n = 0 THEN <<>> ELSE t \o Repeat(t, n - 1)

\* "  ".repeat(n) throws a RangeError for a negative count
addCode(g, line) ==
  IF g.error # NoError THEN g
  ELSE IF g.indentLevel < 0 THEN [g EXCEPT !.error = <<"R", "a", "n", "g", "e", "E", "r", "r", "o", "r", ":", " ", "I", "n", "v", "a", "l", "i", "d", " ", "c", "o", "u", "n", "t", " ", "v", "a", "l", "u", "e">>]
  ELSE [g EXCEPT !.code = Append(@, Repeat(<<" ", " ">>, g.indentLevel) \o line)]

Indent(g, by) == IF g.error # NoError THEN g ELSE [g EXCEPT !.indentLevel = @ + by]

generateDeclare(g, type, name) == g

generateDeclareInit(g, type, name, value) == addCode(g, name \o <<" ", "=", " ">> \o value \o <<";">>)

generateAssign(g, name, value) == addCode(g, name \o <<" ", "=", " ">> \o value \o <<";">>)

generateLoad(g, dest, value) == addCode(g, dest \o <<" ", "=", " ">> \o value \o <<";">>)

generateBinaryOp(g, dest, left, right, op) ==
  addCode(g, dest \o <<" ", "=", " ">> \o left \o <<" ">> \o op \o <<" ">> \o right \o <<";">>)

generateUnaryOp(g, dest, operand, op) == addCode(g, dest \o <<" ", "=", " ">> \o op \o operand \o <<";">>)

generateInput(g, variable) == addCode(g, <<"s", "t", "d", ":", ":", "c", "i", "n", " ", ">", ">", " ">> \o variable \o <<";">>)

generateOutput(g, value) == addCode(g, <<"s", "t", "d", ":", ":", "c", "o", "u", "t", " ", "<", "<", " ">> \o value \o <<" ", "<", "<", " ", "s", "t", "d", ":", ":", "e", "n", "d", "l", ";">>)

generateForBegin(g, init, condition, increment) ==
  Indent(addCode(g, <<"f", "o", "r", " ", "(">> \o init \o <<";", " ">> \o condition \o <<";", " ">> \o increment \o <<")", " ", "{">>), 1)

generateForEnd(g) == addCode(Indent(g, 0 - 1), <<"}">>)

generateJumpIfFalse(g, condition, label) ==
  addCode(g, <<"i", "f", " ", "(", "!", "(">> \o condition \o <<")", ")", " ", "g", "o", "t", "o", " ">> \o label \o <<";">>)

generateScopeBegin(g) == Indent(addCode(g, <<"{">>), 1)

generateScopeEnd(g) == addCode(Indent(g, 0 - 1), <<"}">>)

\* the C++ operator of the opcodes that processInstruction passes to generateBinaryOp
BinaryOperator(op) ==
  CASE op = "ADD" -> <<"+">>
    [] op = "SUB" -> <<"-">>
    [] op = "MUL" -> <<"*">>
    [] op = "DIV" -> <<"/">>
    [] op = "EQ" -> <<"=", "=">>
    [] op = "NEQ" -> <<"!", "=">>
    [] op = "LT" -> <<"<">>
    [] op = "GT" -> <<">">>
    [] op = "LE" -> <<"<", "=">>
    [] op = "GE" -> <<">", "=">>
    [] op = "AND" -> <<"&", "&">>
    [] op = "OR" -> <<"|", "|">>

\* the switch has no default case: any other opcode adds nothing
processInstruction(g, instr) ==
  LET a0 == ArgText(Arg(instr, 0))
      a1 == ArgText(Arg(instr, 1))
      a2 == ArgText(Arg(instr, 2))
  IN CASE instr.op = "DECLARE" -> generateDeclare(g, a0, a1)
       [] instr.op = "DECLARE_INIT" -> generateDeclareInit(g, a0, a1, a2)
       [] instr.op = "ASSIGN" -> generateAssign(g, a0, a1)
       [] instr.op = "LOAD" -> generateLoad(g, a0, a1)
       [] instr.op \in {"ADD", "SUB", "MUL", "DIV", "EQ", "NEQ", "LT", "GT", "LE", "GE", "AND", "OR"} ->
            generateBinaryOp(g, a0, a1, a2, BinaryOperator(instr.op))
       [] instr.op = "NEG" -> generateUnaryOp(g, a0, a1, <<"-">>)
       [] instr.op = "INPUT" -> generateInput(g, a0)
       [] instr.op = "OUTPUT" -> generateOutput(g, a0)
       [] instr.op = "FOR_BEGIN" -> generateForBegin(g, a0, a1, a2)
       [] instr.op = "FOR_END" -> generateForEnd(g)
       [] instr.op = "JUMP_IF_FALSE" -> generateJumpIfFalse(g, a0, a1)
       [] instr.op = "SCOPE_BEGIN" -> generateScopeBegin(g)
       [] instr.op = "SCOPE_END" -> generateScopeEnd(g)
       [] instr.op = "FOR_LOOP_START" ->
            Indent(addCode(g, <<"f", "o", "r", " ", "(">> \o a0 \o <<";", " ">> \o a1 \o <<";", " ">> \o a2 \o <<")", " ", "{">>), 1)
       [] instr.op = "FOR_LOOP_END" -> addCode(Indent(g, 0 - 1), <<"}">>)
       [] instr.op = "LABEL" -> addCode(g, a0 \o <<":">>)
       [] instr.op = "JUMP" -> addCode(g, <<"g", "o", "t", "o", " ">> \o a0 \o <<";">>)
       [] OTHER -> g

\* the type that the first pass of generate gives the destination of instr
TempType(instr) ==
  IF instr.op = "LOAD" /\ Arg(instr, 1) \notin {UndefinedArg, NullPlace}
  THEN (IF StartsWith(Arg(instr, 1), <<"\"">>) THEN <<"s", "t", "d", ":", ":", "s", "t", "r", "i", "n", "g">>
        ELSE IF Includes(Arg(instr, 1), ".") THEN <<"d", "o", "u", "b", "l", "e">>
        ELSE <<"i", "n", "t">>)
  ELSE <<"i", "n", "t">>

\* an insertion-ordered Map as a sequence of entries
OrderedHas(m, key) == \E i \in 1..Len(m) : m[i].name = key

OrderedSet(m, key, type) ==
  IF OrderedHas(m, key)
  THEN [i \in 1..Len(m) |-> IF m[i].name = key THEN [name |-> key, type |-> type] ELSE m[i]]
  ELSE Append(m, [name |-> key, type |-> type])

\* an insertion-ordered Set as a sequence
SetAdd(s, x) == IF \E i \in 1..Len(s) : s[i] = x THEN s ELSE Append(s, x)

\* one iteration of the first pass of generate
ScanInstruction(g, instr) ==
  LET dest == Arg(instr, 0)
      type == TempType(instr)
      g1 == IF Len(instr.args) > 0 /\ IsTempName(ArgText(dest))
               /\ (~OrderedHas(g.tempVars, dest) \/ type # <<"i", "n", "t">>)
            THEN [g EXCEPT !.tempVars = OrderedSet(@, dest, type)]
            ELSE g
  IN IF instr.op \in {"DECLARE", "DECLARE_INIT"} THEN [g1 EXCEPT !.variables = SetAdd(@, Arg(instr, 1))]
     ELSE IF instr.op = "INPUT" THEN [g1 EXCEPT !.variables = SetAdd(@, Arg(instr, 0))]
     ELSE g1

RECURSIVE ScanLoop(_, _)
ScanLoop(g, instructions) ==
  IF instructions = <<>> \/ g.error # NoError THEN g
  ELSE ScanLoop(ScanInstruction(g, Head(instructions)), Tail(instructions))

RECURSIVE DeclareVariables(_, _)
DeclareVariables(g, variables) ==
  IF variables = <<>> \/ g.error # NoError THEN g
  ELSE DeclareVariables(addCode(g, <<"i", "n", "t", " ">> \o ArgText(Head(variables)) \o <<";">>), Tail(variables))

RECURSIVE DeclareTemps(_, _)
DeclareTemps(g, tempVars) ==
  IF tempVars = <<>> \/ g.error # NoError THEN g
  ELSE DeclareTemps(addCode(g, Head(tempVars).type \o <<" ">> \o Head(tempVars).name \o <<";">>), Tail(tempVars))

RECURSIVE ProcessLoop(_, _)
ProcessLoop(g, instructions) ==
  IF instructions = <<>> \/ g.error # NoError THEN g
  ELSE ProcessLoop(processInstruction(g, Head(instructions)), Tail(instructions))

\* the declaration block of generate
DeclarationBlock(g) ==
  IF Len(g.tempVars) > 0 \/ Len(g.variables) > 0
  THEN addCode(DeclareTemps(DeclareVariables(addCode(g, <<"/", "/", " ", "D", "e", "c", "l", "a", "r", "e", " ", "v", "a", "r", "i", "a", "b", "l", "e", "s">>), g.variables), g.tempVars), <<>>)
  ELSE g

\* CodeGenerator.generate up to the join: the generator after the last addCode
CodeGeneratorRun(instructions) ==
  LET g0 == ScanLoop(CodeGenerator, instructions)
      g1 == addCode(addCode(addCode(g0, <<"#", "i", "n", "c", "l", "u", "d", "e", " ", "<", "i", "o", "s", "t", "r", "e", "a", "m", ">">>), <<"#", "i", "n", "c", "l", "u", "d", "e", " ", "<", "s", "t", "r", "i", "n", "g", ">">>), <<>>)
      g2 == Indent(addCode(g1, <<"i", "n", "t", " ", "m", "a", "i", "n", "(", ")", " ", "{">>), 1)
      g3 == DeclarationBlock(g2)
      g4 == ProcessLoop(g3, instructions)
      g5 == addCode(g4, <<"r", "e", "t", "u", "r", "n", " ", "0", ";">>)
  IN addCode(Indent(g5, 0 - 1), <<"}">>)

\* code.join("\n")
RECURSIVE Join(_)
Join(lines) ==
  IF lines = <<>> THEN <<>>
  ELSE IF Len(lines) = 1 THEN lines[1]
  ELSE lines[1] \o <<"\n">> \o Join(Tail(lines))

\* CodeGenerator.generate(instructions): the text returned, or the error thrown
CodeGenerate(instructions) ==
  LET g == CodeGeneratorRun(instructions)
  IN [text |-> IF g.error = NoError THEN Join(g.code) ELSE <<>>, error |-> g.error]

(***************************************************************************)
(* The emitted C++ text as the C++ compiler reads it (index.js: the driver *)
(* passes the .cpp file to g++ and runs the executable).  Only the         *)
(* statement forms that CodeGenerator writes are read; anything else is    *)
(* "unsupported".                                                          *)
(***************************************************************************)
\* the pieces of t between the occurrences of sep
RECURSIVE Split(_, _)
Split(t, sep) ==
  LET i == IndexOf(t, sep, 1)
  IN IF i = 0 THEN <<t>>
     ELSE <<SubSeq(t, 1, i - 1)>> \o Split(SubSeq(t, i + Len(sep), Len(t)), sep)

RECURSIVE TrimLeft(_)
TrimLeft(t) == IF t # <<>> /\ t[1] = " " THEN TrimLeft(Tail(t)) ELSE t

\* t without the prefix p and the suffix s
Between(t, p, s) == SubSeq(t, Len(p) + 1, Len(t) - Len(s))

Wrapped(t, p, s) == Len(t) >= Len(p) + Len(s) /\ StartsWith(t, p) /\ EndsWith(t, s)

IsCppIdentifier(t) ==
  /\ t # <<>>
  /\ isAlpha(t[1])
  /\ \A i \in 1..Len(t) : isAlphaNumeric(t[i])
  /\ t \notin {<<"i", "n", "t">>, <<"d", "o", "u", "b", "l", "e">>, <<"f", "o", "r">>, <<"i", "f">>, <<"g", "o", "t", "o">>, <<"r", "e", "t", "u", "r", "n">>, <<"c", "h", "a", "r">>}

CppTypes == {<<"i", "n", "t">>, <<"d", "o", "u", "b", "l", "e">>, <<"s", "t", "d", ":", ":", "s", "t", "r", "i", "n", "g">>}

\* an operand: a literal or a name
CppAtom(t) ==
  [form |-> IF IsIntText(t) THEN "int"
            ELSE IF IsFloatText(t) THEN "double"
            ELSE IF IsStringLiteral(t) /\ ~Includes(t, "\\") /\ ~Includes(SubSeq(t, 2, Len(t) - 1), "\"")
                 THEN "string"
            ELSE IF IsCppIdentifier(t) THEN "name"
            ELSE "bad",
   text |-> t]

BadAtom == [form |-> "bad", text |-> <<>>]

CppOperators ==
  {<<"+">>, <<"-">>, <<"*">>, <<"/">>, <<"=", "=">>, <<"!", "=">>, <<"<">>, <<">">>, <<"<", "=">>, <<">", "=">>, <<"&", "&">>, <<"|", "|">>}

BadExpr == [form |-> "bad", op |-> <<>>, l |-> BadAtom, r |-> BadAtom]

NoExpr == [form |-> "none", op |-> <<>>, l |-> BadAtom, r |-> BadAtom]

\* an expression that is one operand
AtomExpr(a) == IF a.form = "bad" THEN BadExpr ELSE [form |-> "atom", op |-> <<>>, l |-> a, r |-> BadAtom]

\* -operand
NegExpr(a) == IF a.form = "bad" THEN BadExpr ELSE [form |-> "neg", op |-> <<"-">>, l |-> a, r |-> BadAtom]

\* operand op operand
BinExpr(op, l, r) ==
  IF op \notin CppOperators \/ l.form = "bad" \/ r.form = "bad" THEN BadExpr
  ELSE [form |-> "bin", op |-> op, l |-> l, r |-> r]

WordsExpr(words) ==
  IF Len(words) # 3 THEN BadExpr ELSE BinExpr(words[2], CppAtom(words[1]), CppAtom(words[3]))

FirstGood(a, b, c) == IF a.form # "bad" THEN a ELSE IF b.form # "bad" THEN b ELSE c

\* the right-hand side of an assignment: operand, -operand or operand op operand
CppExpr(t) ==
  FirstGood(AtomExpr(CppAtom(t)),
            NegExpr(CppAtom(IF Len(t) >= 2 /\ t[1] = "-" THEN Tail(t) ELSE <<>>)),
            WordsExpr(Split(t, <<" ">>)))

NoLoop == [init |-> <<>>, cond |-> NoExpr, incr |-> <<>>]

CppStmt(kind, type, name, e) == [kind |-> kind, type |-> type, name |-> name, expr |-> e, loop |-> NoLoop]

Unsupported == CppStmt("unsupported", <<>>, <<>>, NoExpr)

\* words = expr, where words is a name or a type and a name
AssignmentOf(words, e) ==
  IF e.form = "bad" THEN Unsupported
  ELSE IF Len(words) = 1 /\ IsCppIdentifier(words[1]) THEN CppStmt("assign", <<>>, words[1], e)
  ELSE IF Len(words) = 2 /\ words[1] \in CppTypes /\ IsCppIdentifier(words[2])
  THEN CppStmt("init", words[1], words[2], e)
  ELSE Unsupported

\* the assignment whose " = " is at index i of t
AssignmentAt(t, i) ==
  IF i = 0 THEN Unsupported
  ELSE AssignmentOf(Split(SubSeq(t, 1, i - 1), <<" ">>), CppExpr(SubSeq(t, i + 3, Len(t))))

\* name = expr   or   type name = expr
CppAssignment(t) == AssignmentAt(t, IndexOf(t, <<" ", "=", " ">>, 1))

InputOf(a) == IF a.form = "name" THEN CppStmt("input", <<>>, a.text, NoExpr) ELSE Unsupported

OutputOf(e) == IF e.form = "atom" THEN CppStmt("output", <<>>, <<>>, e) ELSE Unsupported

GotoOf(label) == IF IsCppIdentifier(label) THEN CppStmt("goto", <<>>, label, NoExpr) ELSE Unsupported

UnlessOf(e, label) ==
  IF e.form = "atom" /\ IsCppIdentifier(label) THEN CppStmt("unless", <<>>, label, e) ELSE Unsupported

\* if (!(cond)) goto label;  with ")) goto " at index i of t
UnlessAt(t, i) ==
  IF i = 0 THEN Unsupported ELSE UnlessOf(CppExpr(SubSeq(t, 7, i - 1)), SubSeq(t, i + 8, Len(t) - 1))

LabelOf(label) == IF IsCppIdentifier(label) THEN CppStmt("label", <<>>, label, NoExpr) ELSE Unsupported

DeclareOf(type, name) ==
  IF type \in CppTypes /\ IsCppIdentifier(name) THEN CppStmt("declare", type, name, NoExpr) ELSE Unsupported

\* for (init; cond; incr) {
ForOf(init, cond, incr) ==
  IF init.kind \in {"assign", "init"} /\ cond.form # "bad" /\ incr.kind = "assign"
  THEN [kind |-> "for", type |-> <<>>, name |-> <<>>, expr |-> NoExpr,
        loop |-> [init |-> <<init>>, cond |-> cond, incr |-> <<incr>>]]
  ELSE Unsupported

ForClauses(clauses) ==
  IF Len(clauses) # 3 THEN Unsupported
  ELSE ForOf(CppAssignment(clauses[1]), CppExpr(clauses[2]), CppAssignment(clauses[3]))

\* a statement that ends with ";": a declaration or an assignment
SimpleOf(t, words) ==
  IF Len(words) = 2 /\ IndexOf(t, <<" ", "=", " ">>, 1) = 0 THEN DeclareOf(words[1], words[2])
  ELSE CppAssignment(t)

\* the statement that one line of the emitted text holds, t being the line without its indentation
StmtOf(t) ==
  CASE t = <<>> \/ StartsWith(t, <<"/", "/">>) \/ StartsWith(t, <<"#", "i", "n", "c", "l", "u", "d", "e", " ">>) -> CppStmt("blank", <<>>, <<>>, NoExpr)
    [] t = <<"i", "n", "t", " ", "m", "a", "i", "n", "(", ")", " ", "{">> -> CppStmt("main", <<>>, <<>>, NoExpr)
    [] t = <<"r", "e", "t", "u", "r", "n", " ", "0", ";">> -> CppStmt("return", <<>>, <<>>, NoExpr)
    [] t = <<"{">> -> CppStmt("open", <<>>, <<>>, NoExpr)
    [] t = <<"}">> -> CppStmt("close", <<>>, <<>>, NoExpr)
    [] Wrapped(t, <<"f", "o", "r", " ", "(">>, <<")", " ", "{">>) -> ForClauses(Split(Between(t, <<"f", "o", "r", " ", "(">>, <<")", " ", "{">>), <<";", " ">>))
    [] Wrapped(t, <<"s", "t", "d", ":", ":", "c", "i", "n", " ", ">", ">", " ">>, <<";">>) -> InputOf(CppAtom(Between(t, <<"s", "t", "d", ":", ":", "c", "i", "n", " ", ">", ">", " ">>, <<";">>)))
    [] Wrapped(t, <<"s", "t", "d", ":", ":", "c", "o", "u", "t", " ", "<", "<", " ">>, <<" ", "<", "<", " ", "s", "t", "d", ":", ":", "e", "n", "d", "l", ";">>) ->
         OutputOf(CppExpr(Between(t, <<"s", "t", "d", ":", ":", "c", "o", "u", "t", " ", "<", "<", " ">>, <<" ", "<", "<", " ", "s", "t", "d", ":", ":", "e", "n", "d", "l", ";">>)))
    [] Wrapped(t, <<"g", "o", "t", "o", " ">>, <<";">>) -> GotoOf(Between(t, <<"g", "o", "t", "o", " ">>, <<";">>))
    [] Wrapped(t, <<"i", "f", " ", "(", "!", "(">>, <<";">>) -> UnlessAt(t, IndexOf(t, <<")", ")", " ", "g", "o", "t", "o", " ">>, 1))
    [] Wrapped(t, <<>>, <<":">>) -> LabelOf(Between(t, <<>>, <<":">>))
    [] Wrapped(t, <<>>, <<";">>) -> SimpleOf(Between(t, <<>>, <<";">>), Split(Between(t, <<>>, <<";">>), <<" ">>))
    [] OTHER -> Unsupported

CppLine(line) == StmtOf(TrimLeft(line))

\* the emitted text as statements, line by line
CppProgram(code) == [k \in 1..Len(code) |-> CppLine(code[k])]

\* the index of the line that opens the block which line i closes, 0 if none
RECURSIVE Opener(_, _, _)
Opener(program, i, depth) ==
  IF i < 1 THEN 0
  ELSE IF program[i].kind = "close" THEN Opener(program, i - 1, depth + 1)
  ELSE IF program[i].kind \in {"open", "for", "main"}
  THEN (IF depth = 0 THEN i ELSE Opener(program, i - 1, depth - 1))
  ELSE Opener(program, i - 1, depth)

\* the index of the line that closes the block which line i opens, 0 if none
RECURSIVE Closer(_, _, _)
Closer(program, i, depth) ==
  IF i > Len(program) THEN 0
  ELSE IF program[i].kind \in {"open", "for", "main"} THEN Closer(program, i + 1, depth + 1)
  ELSE IF program[i].kind = "close"
  THEN (IF depth = 0 THEN i ELSE Closer(program, i + 1, depth - 1))
  ELSE Closer(program, i + 1, depth)

\* the index of the first line that holds the label, 0 if none
LabelLine(program, label) ==
  LET hits == {k \in 1..Len(program) : program[k].kind = "label" /\ program[k].name = label}
  IN IF hits = {} THEN 0 ELSE CHOOSE k \in hits : \A h \in hits : k <= h

(***************************************************************************)
(* g++ on the emitted text: declarations, types, labels and braces         *)
(***************************************************************************)
\* the innermost scope that declares name, 0 if none
ScopeOf(scopes, name) ==
  LET hits == {i \in 1..Len(scopes) : name \in DOMAIN scopes[i]}
  IN IF hits = {} THEN 0 ELSE CHOOSE i \in hits : \A j \in hits : j <= i

NameType(scopes, name, s) == IF s = 0 THEN <<"e", "r", "r", "o", "r">> ELSE scopes[s][name]

AtomType(scopes, a) ==
  CASE a.form = "int" -> <<"i", "n", "t">>
    [] a.form = "double" -> <<"d", "o", "u", "b", "l", "e">>
    [] a.form = "string" -> <<"s", "t", "d", ":", ":", "s", "t", "r", "i", "n", "g">>
    [] a.form = "name" -> NameType(scopes, a.text, ScopeOf(scopes, a.text))
    [] OTHER -> <<"e", "r", "r", "o", "r">>

IsNumericType(t) == t \in {<<"i", "n", "t">>, <<"d", "o", "u", "b", "l", "e">>}

BinaryType(op, l, r) ==
  IF l = <<"e", "r", "r", "o", "r">> \/ r = <<"e", "r", "r", "o", "r">> THEN <<"e", "r", "r", "o", "r">>
  ELSE IF IsNumericType(l) /\ IsNumericType(r)
  THEN (IF op \in {<<"+">>, <<"-">>, <<"*">>, <<"/">>} /\ <<"d", "o", "u", "b", "l", "e">> \in {l, r} THEN <<"d", "o", "u", "b", "l", "e">> ELSE <<"i", "n", "t">>)
  ELSE IF l = <<"s", "t", "d", ":", ":", "s", "t", "r", "i", "n", "g">> /\ r = <<"s", "t", "d", ":", ":", "s", "t", "r", "i", "n", "g">>
  THEN (IF op = <<"+">> THEN <<"s", "t", "d", ":", ":", "s", "t", "r", "i", "n", "g">>
        ELSE IF op \in {<<"=", "=">>, <<"!", "=">>, <<"<">>, <<">">>, <<"<", "=">>, <<">", "=">>} THEN <<"i", "n", "t">>
        ELSE <<"e", "r", "r", "o", "r">>)
  ELSE <<"e", "r", "r", "o", "r">>

NegType(t) == IF IsNumericType(t) THEN t ELSE <<"e", "r", "r", "o", "r">>

ExprType(scopes, e) ==
  CASE e.form = "atom" -> AtomType(scopes, e.l)
    [] e.form = "neg" -> NegType(AtomType(scopes, e.l))
    [] e.form = "bin" -> BinaryType(e.op, AtomType(scopes, e.l), AtomType(scopes, e.r))
    [] OTHER -> <<"e", "r", "r", "o", "r">>

\* the verdict on  dest = value
AssignVerdict(dest, value) ==
  IF dest = <<"e", "r", "r", "o", "r">> \/ value = <<"e", "r", "r", "o", "r">> THEN "error"
  ELSE IF IsNumericType(dest) /\ IsNumericType(value) THEN "ok"
  ELSE IF dest = <<"s", "t", "d", ":", ":", "s", "t", "r", "i", "n", "g">> /\ value = <<"s", "t", "d", ":", ":", "s", "t", "r", "i", "n", "g">> THEN "ok"
  ELSE IF dest = <<"s", "t", "d", ":", ":", "s", "t", "r", "i", "n", "g">> THEN "unsupported"
  ELSE "error"

Worse(a, b) ==
  IF "error" \in {a, b} THEN "error" ELSE IF "unsupported" \in {a, b} THEN "unsupported" ELSE "ok"

Declare(scopes, name, type) == [scopes EXCEPT ![Len(scopes)] = MapSet(@, name, type)]

\* the scopes inside the block that an assignment or a declaration with initializer heads
ScopesWith(scopes, stmt) ==
  IF stmt.kind = "init" THEN Append(scopes, MapSet(<<>>, stmt.name, stmt.type)) ELSE Append(scopes, <<>>)

\* the verdict on an assignment statement in scopes that already hold its declaration
AssignmentVerdict(scopes, stmt) ==
  AssignVerdict(AtomType(scopes, [form |-> "name", text |-> stmt.name]), ExprType(scopes, stmt.expr))

Verdict(ok) == IF ok THEN "ok" ELSE "error"

\* the verdict on a for header, inner being the scopes of the loop
ForVerdict(inner, loop) ==
  Worse(AssignmentVerdict(inner, loop.init[1]),
        Worse(Verdict(IsNumericType(ExprType(inner, loop.cond))), AssignmentVerdict(inner, loop.incr[1])))

\* the verdict on line i in the scopes open before it
LineVerdict(program, i, scopes) ==
  LET stmt == program[i]
  IN CASE stmt.kind = "blank" -> "ok"
       [] stmt.kind = "main" -> Verdict(scopes = <<>>)
       [] scopes = <<>> -> "error"
       [] stmt.kind \in {"return", "open", "close"} -> "ok"
       [] stmt.kind = "declare" -> Verdict(stmt.name \notin DOMAIN scopes[Len(scopes)])
       [] stmt.kind = "assign" -> AssignmentVerdict(scopes, stmt)
       [] stmt.kind = "input" -> Verdict(ScopeOf(scopes, stmt.name) # 0)
       [] stmt.kind = "output" -> Verdict(ExprType(scopes, stmt.expr) # <<"e", "r", "r", "o", "r">>)
       [] stmt.kind = "goto" -> Verdict(LabelLine(program, stmt.name) # 0)
       [] stmt.kind = "unless" ->
            Verdict(LabelLine(program, stmt.name) # 0 /\ IsNumericType(ExprType(scopes, stmt.expr)))
       [] stmt.kind = "label" -> Verdict(LabelLine(program, stmt.name) = i)
       [] stmt.kind = "for" -> ForVerdict(ScopesWith(scopes, stmt.loop.init[1]), stmt.loop)
       [] OTHER -> "unsupported"

\* the scopes open after line i
ScopesAfter(program, i, scopes) ==
  LET stmt == program[i]
  IN CASE stmt.kind \in {"main", "open"} -> Append(scopes, <<>>)
       [] stmt.kind = "for" -> ScopesWith(scopes, stmt.loop.init[1])
       [] stmt.kind = "close" -> IF scopes = <<>> THEN scopes ELSE SubSeq(scopes, 1, Len(scopes) - 1)
       [] stmt.kind = "declare" ->
            IF scopes = <<>> THEN scopes ELSE Declare(scopes, stmt.name, stmt.type)
       [] OTHER -> scopes

RECURSIVE CompileLoop(_, _, _, _)
CompileLoop(program, i, scopes, verdict) ==
  IF i > Len(program) THEN Worse(verdict, Verdict(scopes = <<>>))
  ELSE IF verdict = "error" THEN verdict
  ELSE CompileLoop(program, i + 1, ScopesAfter(program, i, scopes),
                   Worse(verdict, LineVerdict(program, i, scopes)))

\* g++ file.cpp: "ok" when it produces the executable, "error" when it rejects the text
CppCompile(program) == CompileLoop(program, 1, <<>>, "ok")

(***************************************************************************)
(* The executable: one line of the emitted text at a time                  *)
(***************************************************************************)
\* conversion of a finite number to int: the fraction is discarded
Trunc(v) == JsInt(Sign(v.n) * (Abs(v.n) \div v.d))

Result(type, v, undefined) == [type |-> type, v |-> v, undefined |-> undefined]

\* a value converted to the type of the object it is stored in (the numbers of the
\* model stay far inside the range of int)
Converted(type, r) ==
  IF type = <<"i", "n", "t">> /\ r.v.k = "num"
  THEN Result(type, Trunc(r.v), r.undefined)
  ELSE IF type = <<"i", "n", "t">> THEN Result(type, JsInt(0), TRUE)
  ELSE Result(type, r.v, r.undefined)

Cell(type, init, v) == [type |-> type, init |-> init, v |-> v]

\* a declared object: a std::string is empty, an int or a double holds no value yet
NewCell(type) == IF type = <<"s", "t", "d", ":", ":", "s", "t", "r", "i", "n", "g">> THEN Cell(type, TRUE, Str(<<>>)) ELSE Cell(type, FALSE, JsInt(0))

CellValue(c, g) == IF c.init THEN Result(c.type, c.v, FALSE) ELSE Result(c.type, JsInt(g), FALSE)

\* the value of an operand; an object that holds no value yet reads as g
AtomValue(frames, a, g) ==
  CASE a.form = "int" -> Result(<<"i", "n", "t">>, ParseInt(a.text), FALSE)
    [] a.form = "double" -> Result(<<"d", "o", "u", "b", "l", "e">>, ParseFloat(a.text), FALSE)
    [] a.form = "string" -> Result(<<"s", "t", "d", ":", ":", "s", "t", "r", "i", "n", "g">>, Str(SubSeq(a.text, 2, Len(a.text) - 1)), FALSE)
    [] OTHER -> CellValue(frames[ScopeOf(frames, a.text)][a.text], g)

ReadsIndeterminate(frames, a) ==
  a.form = "name" /\ ~frames[ScopeOf(frames, a.text)][a.text].init

Truth(v) == v.k # "num" \/ v.n # 0

BinaryResult(op, l, r) == CASE op = <<"+">> -> JsAdd(l.v, r.v)
             [] op = <<"-">> -> JsSub(l.v, r.v)
             [] op = <<"*">> -> JsMul(l.v, r.v)
             [] op = <<"/">> -> JsDiv(l.v, r.v)
             [] op = <<"=", "=">> -> Bit(JsStrictEquals(l.v, r.v))
             [] op = <<"!", "=">> -> Bit(~JsStrictEquals(l.v, r.v))
             [] op = <<"<">> -> Bit(JsLess(l.v, r.v))
             [] op = <<">">> -> Bit(JsLess(r.v, l.v))
             [] op = <<"<", "=">> -> Bit(JsLessEq(l.v, r.v))
             [] op = <<">", "=">> -> Bit(JsLessEq(r.v, l.v))
             [] op = <<"&", "&">> -> Bit(Truth(l.v) /\ Truth(r.v))
             [] op = <<"|", "|">> -> Bit(Truth(l.v) \/ Truth(r.v))

\* l op r in the type that C++ gives the expression
TypedValue(type, op, v, r) ==
  IF type = <<"i", "n", "t">> /\ op = <<"/">> /\ r.v.n = 0 THEN Result(type, JsInt(0), TRUE)
  ELSE Converted(type, Result(type, v, FALSE))

BinaryValue(op, l, r) == TypedValue(BinaryType(op, l.type, r.type), op, BinaryResult(op, l, r), r)

NegValue(x) == Converted(x.type, Result(x.type, NumNeg(x.v), FALSE))

ExprValue(frames, e, g) ==
  CASE e.form = "atom" -> AtomValue(frames, e.l, g)
    [] e.form = "neg" -> NegValue(AtomValue(frames, e.l, g))
    [] OTHER -> BinaryValue(e.op, AtomValue(frames, e.l, g), AtomValue(frames, e.r, g))

ExprIndeterminate(frames, e) ==
  CASE e.form = "atom" -> ReadsIndeterminate(frames, e.l)
    [] e.form = "neg" -> ReadsIndeterminate(frames, e.l)
    [] OTHER -> ReadsIndeterminate(frames, e.l) \/ ReadsIndeterminate(frames, e.r)

CellOf(frames, name) == frames[ScopeOf(frames, name)][name]

\* frames after  name = r.v
Store(frames, name, r) ==
  [frames EXCEPT ![ScopeOf(frames, name)][name] = Cell(@.type, TRUE, r.v)]

Pop(frames) == SubSeq(frames, 1, Len(frames) - 1)

\* the text that operator<< writes
CoutText(r) == toString(r.v)

\* the machine before the first line of the executable built from the program
Machine(program, stdin) ==
  [status |-> "running", program |-> program, pc |-> 1, frames |-> <<>>, stdin |-> stdin, stdout |-> <<>>,
   fail |-> FALSE, indeterminate |-> FALSE, steps |-> 0]

MachineOff ==
  [status |-> "off", program |-> <<>>, pc |-> 0, frames |-> <<>>, stdin |-> <<>>, stdout |-> <<>>,
   fail |-> FALSE, indeterminate |-> FALSE, steps |-> 0]

\* on to line pc
Goto(m, pc) == IF m.status # "running" THEN m ELSE [m EXCEPT !.pc = pc, !.steps = @ + 1]

Forward(m) == Goto(m, m.pc + 1)

Halt(m, status) == [m EXCEPT !.status = status, !.steps = @ + 1]

Seen(m, indeterminate) == [m EXCEPT !.indeterminate = @ \/ indeterminate]

\* frames in which the object that stmt assigns to exists
Declared(frames, stmt) ==
  IF stmt.kind = "init"
  THEN [frames EXCEPT ![Len(frames)] = MapSet(@, stmt.name, NewCell(stmt.type))]
  ELSE frames

TargetType(frames, stmt) == IF stmt.kind = "init" THEN stmt.type ELSE CellOf(frames, stmt.name).type

\* the machine after  name = r  of stmt
Assign(m, stmt, r, indeterminate) ==
  IF r.undefined THEN Halt(m, "undefined")
  ELSE Seen([m EXCEPT !.frames = Store(Declared(m.frames, stmt), stmt.name, r)], indeterminate)

\* an assignment statement, without the move to the next line
AssignStep(m, stmt, g) ==
  IF m.status # "running" THEN m
  ELSE Assign(m, stmt, Converted(TargetType(m.frames, stmt), ExprValue(m.frames, stmt.expr, g)),
              ExprIndeterminate(m.frames, stmt.expr))

\* std::cin >> name  into the object c
InputStep(m, name, c) ==
  IF m.fail THEN m
  ELSE IF m.stdin = <<>>
  THEN [m EXCEPT !.fail = TRUE,
                 !.frames = IF IsNumericType(c.type) THEN Store(m.frames, name, Result(c.type, JsInt(0), FALSE))
                            ELSE m.frames]
  ELSE [m EXCEPT !.stdin = Tail(m.stdin),
                 !.frames = Store(m.frames, name,
                                  IF IsNumericType(c.type) THEN Result(c.type, JsInt(Head(m.stdin)), FALSE)
                                  ELSE Result(c.type, Str(toString(JsInt(Head(m.stdin)))), FALSE))]

OutputStep(m, r, indeterminate) == Seen([m EXCEPT !.stdout = Append(@, CoutText(r))], indeterminate)

\* goto label, the label being on line target
Jump(m, target) ==
  IF target = 0 \/ Opener(m.program, target - 1, 0) # Opener(m.program, m.pc - 1, 0)
  THEN Halt(m, "unsupported")
  ELSE Goto(m, target)

\* if (!(c)) goto label
UnlessStep(m, c, indeterminate, target) ==
  IF Truth(c.v) THEN Forward(Seen(m, indeterminate)) ELSE Jump(Seen(m, indeterminate), target)

\* the test of a for loop whose condition has the value c
LoopBranch(m, c, indeterminate, body, exit) ==
  IF c.undefined THEN Halt(m, "undefined")
  ELSE IF Truth(c.v) THEN Goto(Seen(m, indeterminate), body)
  ELSE Goto(Seen([m EXCEPT !.frames = Pop(@)], indeterminate), exit)

LoopTest(m, loop, g, body, exit) ==
  IF m.status # "running" THEN m
  ELSE LoopBranch(m, ExprValue(m.frames, loop.cond, g), ExprIndeterminate(m.frames, loop.cond), body, exit)

Entered(m) == [m EXCEPT !.frames = Append(@, <<>>)]

\* the "}" on line m.pc, o being the line that opened the block
CloseStep(m, o, g) ==
  CASE m.program[o].kind = "main" -> Halt(m, "exited")
    [] m.program[o].kind = "open" -> Forward([m EXCEPT !.frames = Pop(@)])
    [] OTHER -> LoopTest(AssignStep(m, m.program[o].loop.incr[1], g), m.program[o].loop, g, o + 1, m.pc + 1)

\* one line of the executable; g is what an object without a value reads as
StmtStep(m, stmt, g) ==
  CASE stmt.kind \in {"blank", "label"} -> Forward(m)
    [] stmt.kind \in {"main", "open"} -> Forward(Entered(m))
    [] stmt.kind = "declare" -> Forward([m EXCEPT !.frames = Declared(@, [stmt EXCEPT !.kind = "init"])])
    [] stmt.kind = "return" -> Halt(m, "exited")
    [] stmt.kind = "assign" -> Forward(AssignStep(m, stmt, g))
    [] stmt.kind = "input" -> Forward(InputStep(m, stmt.name, CellOf(m.frames, stmt.name)))
    [] stmt.kind = "output" ->
         Forward(OutputStep(m, ExprValue(m.frames, stmt.expr, g), ExprIndeterminate(m.frames, stmt.expr)))
    [] stmt.kind = "goto" -> Jump(m, LabelLine(m.program, stmt.name))
    [] stmt.kind = "unless" ->
         UnlessStep(m, ExprValue(m.frames, stmt.expr, g), ExprIndeterminate(m.frames, stmt.expr),
                    LabelLine(m.program, stmt.name))
    [] stmt.kind = "for" ->
         LoopTest(AssignStep(Entered(m), stmt.loop.init[1], g), stmt.loop, g,
                  m.pc + 1, Closer(m.program, m.pc + 1, 0) + 1)
    [] stmt.kind = "close" -> CloseStep(m, Opener(m.program, m.pc - 1, 0), g)
    [] OTHER -> Halt(m, "unsupported")

MachineStep(m, g) == StmtStep(m, m.program[m.pc], g)

(***************************************************************************)
(* The driver (index.js): the six stages in order over one source file,    *)
(* then g++ and the executable.                                            *)
(***************************************************************************)
\* the pieces that the source programs of the model are built from
Fragments ==
  {<<"s", "a", "h", "i", "h", " ", "x", " ", "=", " ", "2", " ", "+", " ", "3", " ", "*", " ", "4", ";">>,
   <<"b", "e", "n", "v", "i", "s", "(", "x", ")", ";">>,
   <<"s", "a", "h", "i", "h", " ", "x", ";", " ", "x", " ", "=", " ", "1", ";">>,
   <<"b", "e", "g", "i", "r", "(", "x", ")", ";", " ", "b", "e", "n", "v", "i", "s", "(", "x", " ", "+", " ", "1", ")", ";">>,
   <<"s", "a", "h", "i", "h", " ", "a", " ", "=", " ", "1", "0", ";">>,
   <<"a", "g", "e", " ", "(", "a", " ", ">", " ", "5", ")", " ", "{", " ", "b", "e", "n", "v", "i", "s", "(", "\"", "b", "i", "g", "\"", ")", ";", " ", "}", " ", "v", "a", "g", "a", "r", "n", "a", " ", "{", " ", "b", "e", "n", "v", "i", "s", "(", "\"", "s", "m", "a", "l", "l", "\"", ")", ";", " ", "}">>,
   <<"s", "a", "h", "i", "h", " ", "n", " ", "=", " ", "3", ";">>,
   <<"v", "a", "g", "h", "t", "i", " ", "(", "n", " ", ">", " ", "0", ")", " ", "{", " ", "b", "e", "n", "v", "i", "s", "(", "n", ")", ";", " ", "n", " ", "=", " ", "n", " ", "-", " ", "1", ";", " ", "}">>,
   <<"b", "a", "r", "a", "y", "e", " ", "(", "s", "a", "h", "i", "h", " ", "i", " ", "=", " ", "0", ";", " ", "i", " ", "<", " ", "3", ";", " ", "i", " ", "=", " ", "i", " ", "+", " ", "1", ")", " ", "{", " ", "b", "e", "n", "v", "i", "s", "(", "i", ")", ";", " ", "}">>,
   <<"b", "a", "r", "a", "y", "e", " ", "(", "s", "a", "h", "i", "h", " ", "j", " ", "=", " ", "5", ";", " ", "j", " ", ">", " ", "2", ";", " ", "j", " ", "=", " ", "j", " ", "-", " ", "1", ")", " ", "{", " ", "b", "e", "n", "v", "i", "s", "(", "j", ")", ";", " ", "}">>,
   <<"s", "a", "h", "i", "h", " ", "x", " ", "=", " ", "1", ";", "\n", "s", "a", "h", "i", "h", " ", "x", " ", "=", " ", "2", ";">>,
   <<"s", "a", "h", "i", "h", " ", "t", "1", ";", " ", "t", "1", " ", "=", " ", "5", ";", " ", "b", "e", "n", "v", "i", "s", "(", "7", ")", ";">>,
   <<"s", "a", "h", "i", "h", " ", "y", " ", "=", " ", "9", " ", "-", " ", "4", " ", "-", " ", "3", ";">>,
   <<"s", "a", "h", "i", "h", " ", "z", " ", "=", " ", "2", " ", "*", " ", "3", " ", "-", " ", "4", " ", "*", " ", "5", ";">>}

MaxFragments == 2

\* the source files: up to MaxFragments fragments, one per line
RECURSIVE SourcesOf(_)
SourcesOf(n) ==
  IF n = 0 THEN {<<>>}
  ELSE {f \o <<"\n">> \o s : f \in Fragments, s \in SourcesOf(n - 1)}

Sources == UNION {SourcesOf(n) : n \in 1..MaxFragments}

\* what the executable may find on its standard input: whole numbers
Stdins == {<<>>, <<5>>}

\* what an object without a value may read as
Indeterminate == {0, 1}

MaxSteps == 60

\* the driver after readFileSync() has returned the source
Driver(source) ==
  [stage |-> "read", argv |-> [argument |-> "file", content |-> source], sourceCode |-> source,
   tokens |-> <<>>, ast |-> Null, intermediateCode |-> <<>>, optimizedCode |-> <<>>, outputCode |-> <<>>,
   optimize |-> TRUE, error |-> NoError, written |-> FALSE, exited |-> FALSE, exitCode |-> 0]

\* the command line: no argument, the name of no file, or the name of a source file
Invocations ==
  {[argument |-> "none", content |-> <<>>], [argument |-> "missing", content |-> <<>>]}
  \cup {[argument |-> "file", content |-> s] : s \in Sources}

\* the driver as node starts it
Started(argv) == [Driver(<<>>) EXCEPT !.stage = "start", !.argv = argv]

\* input: the array given to optimize(); after: the same array when optimize() has returned
NoOptimizer ==
  [input |-> <<>>, after |-> <<>>, folded |-> <<>>, output |-> <<>>, again |-> <<>>, stage |-> "new"]

Init ==
  /\ driver \in {Started(argv) : argv \in Invocations}
  /\ lexer = Lexer(<<>>)
  /\ analyzer = SemanticAnalyzer
  /\ optimizer = NoOptimizer
  /\ machine = MachineOff

\* the catch block of the driver
Caught(error) ==
  [driver EXCEPT !.stage = "failed", !.error = error, !.exited = TRUE, !.exitCode = 1]

\* the checks of process.argv and fs.existsSync, then readFileSync
ReadSource ==
  /\ driver.stage = "start"
  /\ driver' = IF driver.argv.argument = "file"
               THEN [driver EXCEPT !.stage = "read", !.sourceCode = driver.argv.content]
               ELSE [driver EXCEPT !.stage = "rejected", !.exited = TRUE, !.exitCode = 1]
  /\ UNCHANGED <<lexer, analyzer, optimizer, machine>>

\* Step 1: const tokens = lexer.tokenize()
LexicalAnalysis ==
  /\ driver.stage = "read"
  /\ lexer' = tokenize(driver.sourceCode)
  /\ driver' = IF lexer'.error # NoError THEN Caught(lexer'.error)
               ELSE [driver EXCEPT !.stage = "lexed", !.tokens = lexer'.tokens]
  /\ UNCHANGED <<analyzer, optimizer, machine>>

Parsed(p) == IF p.ok THEN [driver EXCEPT !.stage = "parsed", !.ast = p.node] ELSE Caught(p.error)

\* Step 2: const ast = parser.parse()
SyntaxAnalysis ==
  /\ driver.stage = "lexed"
  /\ driver' = Parsed(parse(driver.tokens))
  /\ UNCHANGED <<lexer, analyzer, optimizer, machine>>

\* Step 3: semanticAnalyzer.analyze(ast)
SemanticAnalysis ==
  /\ driver.stage = "parsed"
  /\ analyzer' = analyze(driver.ast).analyzer
  /\ driver' = IF analyzeThrow(analyzer') = NoError THEN [driver EXCEPT !.stage = "analyzed"]
               ELSE Caught(analyzeThrow(analyzer'))
  /\ UNCHANGED <<lexer, optimizer, machine>>

\* Step 4: const intermediateCode = intermediateGenerator.generate(ast)
IntermediateCodeGeneration ==
  /\ driver.stage = "analyzed"
  /\ driver' = [driver EXCEPT !.stage = "generated", !.intermediateCode = generate(driver.ast).instructions]
  /\ UNCHANGED <<lexer, analyzer, optimizer, machine>>

\* Step 5: const optimizedCode = optimizer.optimize(intermediateCode)
CodeOptimization ==
  /\ driver.stage = "generated"
  /\ optimizer' = [NoOptimizer EXCEPT !.input = driver.intermediateCode,
                                      !.folded = constantFolding(driver.intermediateCode),
                                      !.output = optimize(driver.intermediateCode),
                                      !.after = optimizeInput(driver.intermediateCode),
                                      !.stage = "optimized"]
  /\ driver' = [driver EXCEPT !.stage = "optimized", !.optimizedCode = optimizer'.output]
  /\ UNCHANGED <<lexer, analyzer, machine>>

\* CodeGenerator.generate(instructions) with the text written to the .cpp file
Emitted(g, optimized) ==
  IF g.error # NoError THEN Caught(g.error)
  ELSE [driver EXCEPT !.stage = "emitted", !.outputCode = g.code, !.optimize = optimized, !.written = TRUE]

\* Step 6: const outputCode = codeGenerator.generate(optimizedCode)
CodeGeneration ==
  /\ driver.stage = "optimized"
  /\ driver' = Emitted(CodeGeneratorRun(driver.optimizedCode), TRUE)
  /\ UNCHANGED <<lexer, analyzer, optimizer, machine>>

\* the program without Step 5: codeGenerator.generate(intermediateCode)
CodeGenerationUnoptimized ==
  /\ driver.stage = "optimized"
  /\ driver' = Emitted(CodeGeneratorRun(driver.intermediateCode), FALSE)
  /\ UNCHANGED <<lexer, analyzer, optimizer, machine>>

ReadsInput(program) == \E k \in 1..Len(program) : program[k].kind = "input"

\* the executable that g++ builds, started on stdin, or no executable
Built(program, verdict, stdin) ==
  IF verdict = "ok" THEN Machine(program, stdin)
  ELSE [MachineOff EXCEPT !.status = verdict, !.program = program]

\* the callbacks of exec() return; with nothing left to run, node exits with status 0
Returned(m) == [driver EXCEPT !.stage = "compiled", !.exited = m.status # "running"]

\* exec(g++ --version) and exec(g++ ...): no g++, or the executable, started on some
\* standard input, or the compile error
Compile ==
  /\ driver.stage = "emitted"
  /\ \E found \in BOOLEAN, stdin \in Stdins :
       /\ machine' = IF found
                     THEN Built(CppProgram(driver.outputCode), CppCompile(CppProgram(driver.outputCode)), stdin)
                     ELSE [MachineOff EXCEPT !.status = "missing"]
       /\ (found /\ ReadsInput(machine'.program)) \/ stdin = <<>>
  /\ driver' = Returned(machine')
  /\ UNCHANGED <<lexer, analyzer, optimizer>>

\* exec(./executable): one line further
Execute ==
  /\ machine.status = "running"
  /\ machine.steps < MaxSteps
  /\ \E g \in Indeterminate : machine' = MachineStep(machine, g)
  /\ driver' = Returned(machine')
  /\ UNCHANGED <<lexer, analyzer, optimizer>>

Next ==
  \/ ReadSource
  \/ LexicalAnalysis
  \/ SyntaxAnalysis
  \/ SemanticAnalysis
  \/ IntermediateCodeGeneration
  \/ CodeOptimization
  \/ CodeGeneration
  \/ CodeGenerationUnoptimized
  \/ Compile
  \/ Execute

Spec == Init /\ [][Next]_vars

(***************************************************************************)
(* The lexer alone, one iteration of the loop of tokenize() at a time,     *)
(* over every source text of up to MaxSourceLength characters.             *)
(***************************************************************************)
LexAlphabet == {"a", "1", " ", "#", "\n", "\""}

MaxSourceLength == 3

LexSources == UNION {[1..n -> LexAlphabet] : n \in 0..MaxSourceLength}

InitLex ==
  /\ lexer \in {Lexer(s) : s \in LexSources}
  /\ analyzer = SemanticAnalyzer
  /\ optimizer = NoOptimizer
  /\ driver = Driver(lexer.source)
  /\ machine = MachineOff

\* while (!this.isAtEnd()) { this.start = this.current; this.scanToken(); }
ScanToken ==
  /\ lexer.error = NoError
  /\ ~lexer.done
  /\ ~LexIsAtEnd(lexer)
  /\ lexer' = tokenizeStep(lexer)
  /\ UNCHANGED <<analyzer, optimizer, driver, machine>>

\* this.tokens.push(new Token(TokenType.EOF, ...)); return this.tokens
EndOfInput ==
  /\ lexer.error = NoError
  /\ ~lexer.done
  /\ LexIsAtEnd(lexer)
  /\ lexer' = tokenizeEnd(lexer)
  /\ UNCHANGED <<analyzer, optimizer, driver, machine>>

NextLex ==
  \/ ScanToken
  \/ EndOfInput

SpecLex == InitLex /\ [][NextLex]_vars

(***************************************************************************)
(* The optimizer alone, over every list of up to MaxInstructions           *)
(* instructions of the pool, applied once and then to its own result.      *)
(***************************************************************************)
Instr(op, args) == [op |-> op, args |-> args]

IRPool ==
  {Instr("JUMP", <<<<"L", "1">>>>), Instr("JUMP", <<<<"L", "2">>>>), Instr("LABEL", <<<<"L", "1">>>>), Instr("LABEL", <<<<"L", "2">>>>),
   Instr("JUMP_IF_FALSE", <<<<"t", "0">>, <<"L", "1">>>>), Instr("LOAD", <<<<"t", "0">>, <<"1">>>>), Instr("OUTPUT", <<<<"t", "0">>>>)}

MaxInstructions == 3

IRLists == UNION {[1..n -> IRPool] : n \in 0..MaxInstructions}

InitOpt ==
  /\ optimizer \in {[NoOptimizer EXCEPT !.input = r] : r \in IRLists}
  /\ lexer = Lexer(<<>>)
  /\ analyzer = SemanticAnalyzer
  /\ driver = Driver(<<>>)
  /\ machine = MachineOff

\* optimizer.optimize(r)
Optimize ==
  /\ optimizer.stage = "new"
  /\ optimizer' = [optimizer EXCEPT !.folded = constantFolding(optimizer.input),
                                    !.output = optimize(optimizer.input),
                                    !.after = optimizeInput(optimizer.input),
                                    !.stage = "optimized"]
  /\ UNCHANGED <<lexer, analyzer, driver, machine>>

\* optimizer.optimize(optimizer.optimize(r))
OptimizeAgain ==
  /\ optimizer.stage = "optimized"
  /\ optimizer' = [optimizer EXCEPT !.again = optimize(optimizer.output), !.stage = "again"]
  /\ UNCHANGED <<lexer, analyzer, driver, machine>>

NextOpt ==
  \/ Optimize
  \/ OptimizeAgain

SpecOpt == InitOpt /\ [][NextOpt]_vars

(***************************************************************************)
(* The lexer alone over source lines built around one word: the keyword    *)
(* lexemes of the language and words that begin like one.                  *)
(***************************************************************************)
KeywordLexemes ==
  {<<"s", "a", "h", "i", "h">>, <<"a", "s", "h", "a", "r">>, <<"h", "a", "r", "f">>, <<"b", "e", "g", "i", "r">>, <<"b", "e", "n", "v", "i", "s">>, <<"a", "g", "e">>, <<"v", "a", "l", "i">>, <<"v", "a", "g", "a", "r", "n", "a">>,
   <<"b", "a", "r", "a", "y", "e">>, <<"v", "a", "g", "h", "t", "i">>, <<"t", "a">>, <<"v", "a">>, <<"y", "a">>}

LexWords ==
  KeywordLexemes \cup {<<"v", "a", "l", "i", "d">>, <<"v", "a", "a">>, <<"v", "a", "a", "b">>, <<"y", "a", "b">>, <<"v", "a", "l">>, <<"x">>, <<"a", "g", "e", "s">>, <<"y", "2">>}

\* a word alone, after `x ` and before `;` or ` 1`
WordSources ==
  {p \o w \o s : w \in LexWords, p \in {<<>>, <<"x", " ">>}, s \in {<<>>, <<";">>, <<" ", "1">>}}

InitWords ==
  /\ lexer \in {Lexer(s) : s \in WordSources}
  /\ analyzer = SemanticAnalyzer
  /\ optimizer = NoOptimizer
  /\ driver = Driver(lexer.source)
  /\ machine = MachineOff

SpecWords == InitWords /\ [][NextLex]_vars

(***************************************************************************)
(* The front end alone: Step 1 and Step 2 of the driver over expression    *)
(* statements, if statements, and statements with a token missing.         *)
(***************************************************************************)
BinaryOperators ==
  {<<"v", "a">>, <<"y", "a">>, <<"=", "=">>, <<"!", "=">>, <<"<">>, <<">">>, <<"<", "=">>, <<">", "=">>, <<"+">>, <<"-">>, <<"*">>, <<"/">>}

\* a o1 b o2 c;
TwoOperators(o1, o2) == <<"a", " ">> \o o1 \o <<" ", "b", " ">> \o o2 \o <<" ", "c", ";">>

\* expression statements with a unary minus, and the grouping of each
UnaryExpressions ==
  {[source |-> <<"-", "a", " ", "*", " ", "b", ";">>, tree |-> <<"(", "(", "-", "a", ")", " ", "*", " ", "b", ")">>],
   [source |-> <<"-", "a", " ", "-", " ", "b", ";">>, tree |-> <<"(", "(", "-", "a", ")", " ", "-", " ", "b", ")">>],
   [source |-> <<"a", " ", "-", " ", "-", "b", ";">>, tree |-> <<"(", "a", " ", "-", " ", "(", "-", "b", ")", ")">>],
   [source |-> <<"-", " ", "-", "a", ";">>, tree |-> <<"(", "-", "(", "-", "a", ")", ")">>],
   [source |-> <<"a", " ", "*", " ", "-", "b", " ", "+", " ", "c", ";">>, tree |-> <<"(", "(", "a", " ", "*", " ", "(", "-", "b", ")", ")", " ", "+", " ", "c", ")">>],
   [source |-> <<"a", " ", "<", " ", "b", " ", "=", "=", " ", "c", ";">>, tree |-> <<"(", "(", "a", " ", "<", " ", "b", ")", " ", "=", "=", " ", "c", ")">>],
   [source |-> <<"a", " ", "+", " ", "b", " ", "*", " ", "c", " ", "-", " ", "1", ";">>, tree |-> <<"(", "(", "a", " ", "+", " ", "(", "b", " ", "*", " ", "c", ")", ")", " ", "-", " ", "1", ")">>]}

ExpressionSources ==
  {TwoOperators(o1, o2) : o1, o2 \in BinaryOperators} \cup {u.source : u \in UnaryExpressions}

\* whole statements; every proper prefix of one lacks a token that the grammar expects
WholeStatements ==
  {<<"s", "a", "h", "i", "h", " ", "x", " ", "=", " ", "1", " ", "+", " ", "2", ";">>,
   <<"b", "e", "n", "v", "i", "s", "(", "x", ")", ";">>,
   <<"b", "e", "g", "i", "r", "(", "x", ")", ";">>,
   <<"x", " ", "=", " ", "(", "y", ")", ";">>,
   <<"a", "g", "e", " ", "(", "a", ")", " ", "{", " ", "x", " ", "=", " ", "1", ";", " ", "}">>,
   <<"b", "a", "r", "a", "y", "e", " ", "(", "s", "a", "h", "i", "h", " ", "i", " ", "=", " ", "0", ";", " ", "i", " ", "<", " ", "3", ";", " ", "i", " ", "=", " ", "i", " ", "+", " ", "1", ")", " ", "b", "e", "n", "v", "i", "s", "(", "i", ")", ";">>}

Truncations == UNION {{SubSeq(s, 1, n) : n \in 1..(Len(s) - 1)} : s \in WholeStatements}

\* a statement without one of its tokens, and the column of the token met in its place
Deletions ==
  {[source |-> <<"s", "a", "h", "i", "h", " ", "x", " ", "1", ";">>, column |-> 9],
   [source |-> <<"s", "a", "h", "i", "h", " ", "=", " ", "1", ";">>, column |-> 7],
   [source |-> <<"s", "a", "h", "i", "h", " ", "x", " ", "=", " ", ";">>, column |-> 11],
   [source |-> <<"b", "e", "n", "v", "i", "s", " ", "x", ")", ";">>, column |-> 8],
   [source |-> <<"b", "e", "n", "v", "i", "s", "(", "x", ";">>, column |-> 9],
   [source |-> <<"b", "e", "n", "v", "i", "s", "(", ")", ";">>, column |-> 8],
   [source |-> <<"b", "e", "g", "i", "r", "(", "x", ";">>, column |-> 8],
   [source |-> <<"x", " ", "=", " ", "1", " ", "b", "e", "n", "v", "i", "s", "(", "x", ")", ";">>, column |-> 7],
   [source |-> <<"a", "g", "e", " ", "a", ")", " ", "x", " ", "=", " ", "1", ";">>, column |-> 5],
   [source |-> <<"a", "g", "e", " ", "(", "a", " ", "x", " ", "=", " ", "1", ";">>, column |-> 8],
   [source |-> <<"{", " ", "x", " ", "=", " ", "1", ";", " ", "b", "e", "n", "v", "i", "s", "(", "x", ")", " ", "}">>, column |-> 20],
   [source |-> <<"b", "a", "r", "a", "y", "e", " ", "(", "s", "a", "h", "i", "h", " ", "i", " ", "=", " ", "0", ";", " ", "i", " ", "<", " ", "3", " ", "i", " ", "=", " ", "i", " ", "+", " ", "1", ")", " ", "b", "e", "n", "v", "i", "s", "(", "i", ")", ";">>, column |-> 28]}

\* if statements, and the nesting of each
IfStatements ==
  {[source |-> <<"a", "g", "e", " ", "(", "a", ")", " ", "a", "g", "e", " ", "(", "b", ")", " ", "x", " ", "=", " ", "1", ";", " ", "v", "a", "l", "i", " ", "y", " ", "=", " ", "2", ";">>,
    tree |-> <<"i", "f", " ", "a", " ", "t", "h", "e", "n", " ", "i", "f", " ", "b", " ", "t", "h", "e", "n", " ", "(", "x", " ", "=", " ", "1", ")", ";", " ", "e", "l", "s", "e", " ", "(", "y", " ", "=", " ", "2", ")", ";", " ", "e", "n", "d", " ", "e", "n", "d">>],
   [source |-> <<"a", "g", "e", " ", "(", "a", ")", " ", "a", "g", "e", " ", "(", "b", ")", " ", "x", " ", "=", " ", "1", ";", " ", "v", "a", "g", "a", "r", "n", "a", " ", "y", " ", "=", " ", "2", ";">>,
    tree |-> <<"i", "f", " ", "a", " ", "t", "h", "e", "n", " ", "i", "f", " ", "b", " ", "t", "h", "e", "n", " ", "(", "x", " ", "=", " ", "1", ")", ";", " ", "e", "l", "s", "e", " ", "(", "y", " ", "=", " ", "2", ")", ";", " ", "e", "n", "d", " ", "e", "n", "d">>],
   [source |-> <<"a", "g", "e", " ", "(", "a", ")", " ", "x", " ", "=", " ", "1", ";", " ", "v", "a", "l", "i", " ", "a", "g", "e", " ", "(", "b", ")", " ", "y", " ", "=", " ", "2", ";", " ", "v", "a", "g", "a", "r", "n", "a", " ", "z", " ", "=", " ", "3", ";">>,
    tree |-> <<"i", "f", " ", "a", " ", "t", "h", "e", "n", " ", "(", "x", " ", "=", " ", "1", ")", ";", " ", "e", "l", "s", "e", " ", "i", "f", " ", "b", " ", "t", "h", "e", "n", " ", "(", "y", " ", "=", " ", "2", ")", ";", " ", "e", "l", "s", "e", " ", "(", "z", " ", "=", " ", "3", ")", ";", " ", "e", "n", "d", " ", "e", "n", "d">>],
   [source |-> <<"a", "g", "e", " ", "(", "a", ")", " ", "x", " ", "=", " ", "1", ";", " ", "v", "a", "l", "i", " ", "a", "g", "e", " ", "(", "b", ")", " ", "y", " ", "=", " ", "2", ";">>,
    tree |-> <<"i", "f", " ", "a", " ", "t", "h", "e", "n", " ", "(", "x", " ", "=", " ", "1", ")", ";", " ", "e", "l", "s", "e", " ", "i", "f", " ", "b", " ", "t", "h", "e", "n", " ", "(", "y", " ", "=", " ", "2", ")", ";", " ", "e", "n", "d", " ", "e", "n", "d">>],
   [source |-> <<"a", "g", "e", " ", "(", "a", ")", " ", "{", " ", "a", "g", "e", " ", "(", "b", ")", " ", "x", " ", "=", " ", "1", ";", " ", "}", " ", "v", "a", "l", "i", " ", "y", " ", "=", " ", "2", ";">>,
    tree |-> <<"i", "f", " ", "a", " ", "t", "h", "e", "n", " ", "{", " ", "i", "f", " ", "b", " ", "t", "h", "e", "n", " ", "(", "x", " ", "=", " ", "1", ")", ";", " ", "e", "n", "d", " ", "}", " ", "e", "l", "s", "e", " ", "(", "y", " ", "=", " ", "2", ")", ";", " ", "e", "n", "d">>],
   [source |-> <<"a", "g", "e", " ", "(", "a", ")", " ", "a", "g", "e", " ", "(", "b", ")", " ", "a", "g", "e", " ", "(", "c", ")", " ", "x", " ", "=", " ", "1", ";", " ", "v", "a", "l", "i", " ", "y", " ", "=", " ", "2", ";", " ", "v", "a", "g", "a", "r", "n", "a", " ", "z", " ", "=", " ", "3", ";">>,
    tree |-> <<"i", "f", " ", "a", " ", "t", "h", "e", "n", " ", "i", "f", " ", "b", " ", "t", "h", "e", "n", " ", "i", "f", " ", "c", " ", "t", "h", "e", "n", " ", "(", "x", " ", "=", " ", "1", ")", ";", " ", "e", "l", "s", "e", " ", "(", "y", " ", "=", " ", "2", ")", ";", " ", "e", "n", "d", " ", "e", "l", "s", "e", " ", "(", "z", " ", "=", " ", "3", ")", ";", " ", "e", "n", "d", " ", "e", "n", "d">>],
   [source |-> <<"a", "g", "e", " ", "(", "a", ")", " ", "x", " ", "=", " ", "1", ";", " ", "v", "a", "g", "a", "r", "n", "a", " ", "y", " ", "=", " ", "2", ";">>,
    tree |-> <<"i", "f", " ", "a", " ", "t", "h", "e", "n", " ", "(", "x", " ", "=", " ", "1", ")", ";", " ", "e", "l", "s", "e", " ", "(", "y", " ", "=", " ", "2", ")", ";", " ", "e", "n", "d">>],
   [source |-> <<"a", "g", "e", " ", "(", "a", ")", " ", "x", " ", "=", " ", "1", ";">>,
    tree |-> <<"i", "f", " ", "a", " ", "t", "h", "e", "n", " ", "(", "x", " ", "=", " ", "1", ")", ";", " ", "e", "n", "d">>]}

IfSources == {s.source : s \in IfStatements}

\* statements that an alternative keyword begins
AlternativeFirst ==
  {<<"b", "e", "n", "v", "i", "s", "(", "1", ")", ";", " ", "v", "a", "l", "i", " ", "(", "a", ")", " ", "b", "e", "n", "v", "i", "s", "(", "2", ")", ";">>,
   <<"v", "a", "l", "i", " ", "(", "a", ")", " ", "b", "e", "n", "v", "i", "s", "(", "2", ")", ";">>,
   <<"v", "a", "g", "a", "r", "n", "a", " ", "(", "a", ")", " ", "b", "e", "n", "v", "i", "s", "(", "2", ")", ";">>,
   <<"x", " ", "=", " ", "1", ";", " ", "v", "a", "g", "a", "r", "n", "a", " ", "(", "a", ")", " ", "x", " ", "=", " ", "2", ";">>}

ParseSources ==
  ExpressionSources \cup Truncations \cup {d.source : d \in Deletions} \cup IfSources \cup AlternativeFirst

InitParse ==
  /\ driver \in {Driver(s) : s \in ParseSources}
  /\ lexer = Lexer(driver.sourceCode)
  /\ analyzer = SemanticAnalyzer
  /\ optimizer = NoOptimizer
  /\ machine = MachineOff

NextParse ==
  \/ LexicalAnalysis
  \/ SyntaxAnalysis

SpecParse == InitParse /\ [][NextParse]_vars

(***************************************************************************)
(* Steps 1 to 3 of the driver over declarations initialized by arithmetic  *)
(* on literals and variables of both numeric types, and over assignments.  *)
(***************************************************************************)
NumericTypes == {<<"s", "a", "h", "i", "h">>, <<"a", "s", "h", "a", "r">>}

\* an integer literal, a float literal, the ashar variable a, the sahih variable n
NumericOperands == {<<"1">>, <<"1", ".", "5">>, <<"a">>, <<"n">>}

ArithmeticOperators == {<<"+">>, <<"-">>, <<"*">>, <<"/">>}

Prelude == <<"a", "s", "h", "a", "r", " ", "a", " ", "=", " ", "1", ".", "5", ";", " ", "s", "a", "h", "i", "h", " ", "n", " ", "=", " ", "2", ";", "\n">>

\* type x = l o r;  after the declarations of a and n
ArithmeticSource(type, l, o, r) ==
  Prelude \o type \o <<" ", "x", " ", "=", " ">> \o l \o <<" ">> \o o \o <<" ">> \o r \o <<";">>

\* type x = (l + r) * 2;
NestedSource(type, l, r) == Prelude \o type \o <<" ", "x", " ", "=", " ", "(">> \o l \o <<" ", "+", " ">> \o r \o <<")", " ", "*", " ", "2", ";">>

\* assignments whose value reads the target before anything has initialized it
ReadsOwnTarget == {<<"s", "a", "h", "i", "h", " ", "x", ";", " ", "x", " ", "=", " ", "x", " ", "+", " ", "1", ";">>, <<"a", "s", "h", "a", "r", " ", "x", ";", " ", "x", " ", "=", " ", "x", ";">>, <<"s", "a", "h", "i", "h", " ", "x", ";", " ", "s", "a", "h", "i", "h", " ", "y", " ", "=", " ", "1", ";", " ", "x", " ", "=", " ", "y", " ", "+", " ", "x", ";">>}

AssignmentSources ==
  ReadsOwnTarget \cup {<<"s", "a", "h", "i", "h", " ", "x", ";", " ", "x", " ", "=", " ", "1", ";", " ", "x", " ", "=", " ", "x", " ", "+", " ", "1", ";">>, <<"s", "a", "h", "i", "h", " ", "x", " ", "=", " ", "1", ";", " ", "x", " ", "=", " ", "x", " ", "+", " ", "1", ";">>, <<"s", "a", "h", "i", "h", " ", "x", ";", " ", "s", "a", "h", "i", "h", " ", "y", ";", " ", "y", " ", "=", " ", "x", ";">>}

SemSources ==
  {ArithmeticSource(t, l, o, r) : t \in NumericTypes, l \in NumericOperands, o \in ArithmeticOperators, r \in NumericOperands}
  \cup {NestedSource(t, l, r) : t \in NumericTypes, l \in NumericOperands, r \in NumericOperands}
  \cup AssignmentSources

InitSem ==
  /\ driver \in {Driver(s) : s \in SemSources}
  /\ lexer = Lexer(driver.sourceCode)
  /\ analyzer = SemanticAnalyzer
  /\ optimizer = NoOptimizer
  /\ machine = MachineOff

NextSem ==
  \/ LexicalAnalysis
  \/ SyntaxAnalysis
  \/ SemanticAnalysis

SpecSem == InitSem /\ [][NextSem]_vars

(***************************************************************************)
(* Steps 1 to 3 of the driver over declarations, assignments and equality  *)
(* tests whose two sides range over every literal type and every variable  *)
(* type, and over declarations that read or redeclare their own name.      *)
(***************************************************************************)
DeclaredTypes == {<<"s", "a", "h", "i", "h">>, <<"a", "s", "h", "a", "r">>, <<"h", "a", "r", "f">>}

\* one literal of each literal type, one variable of each declared type
TypedValues == {<<"2">>, <<"2", ".", "5">>, <<"'", "b", "'">>, <<"\"", "s", "\"">>, <<"i">>, <<"f">>, <<"c">>}

TypedPrelude == <<"s", "a", "h", "i", "h", " ", "i", " ", "=", " ", "1", ";", " ", "a", "s", "h", "a", "r", " ", "f", " ", "=", " ", "1", ".", "5", ";", " ", "h", "a", "r", "f", " ", "c", " ", "=", " ", "'", "a", "'", ";", "\n">>

\* type x = value;
InitializerSource(type, value) == TypedPrelude \o type \o <<" ", "x", " ", "=", " ">> \o value \o <<";">>

\* type x; x = value;
AssignedSource(type, value) == TypedPrelude \o type \o <<" ", "x", ";", " ", "x", " ", "=", " ">> \o value \o <<";">>

EqualityOperators == {<<"=", "=">>, <<"!", "=">>}

\* l o r;
EqualitySource(l, o, r) == TypedPrelude \o l \o <<" ">> \o o \o <<" ">> \o r \o <<";">>

\* declarations whose initializer reads the name being declared
ReadsOwnName == {<<"s", "a", "h", "i", "h", " ", "x", " ", "=", " ", "x", " ", "+", " ", "1", ";">>, <<"a", "s", "h", "a", "r", " ", "x", " ", "=", " ", "x", ";">>, <<"h", "a", "r", "f", " ", "x", " ", "=", " ", "x", ";">>}

\* a name declared twice, and the type of each declaration
DeclaredTwice ==
  {[source |-> <<"s", "a", "h", "i", "h", " ", "x", " ", "=", " ", "1", ";", " ", "a", "s", "h", "a", "r", " ", "x", " ", "=", " ", "2", ".", "5", ";">>, first |-> "SAHIH", latest |-> "ASHAR"],
   [source |-> <<"h", "a", "r", "f", " ", "x", ";", " ", "s", "a", "h", "i", "h", " ", "x", " ", "=", " ", "1", ";">>, first |-> "HARF", latest |-> "SAHIH"],
   [source |-> <<"a", "s", "h", "a", "r", " ", "x", " ", "=", " ", "1", ";", " ", "h", "a", "r", "f", " ", "x", ";">>, first |-> "ASHAR", latest |-> "HARF"]}

TypeSources ==
  {InitializerSource(t, v) : t \in DeclaredTypes, v \in TypedValues}
  \cup {AssignedSource(t, v) : t \in DeclaredTypes, v \in TypedValues}
  \cup {EqualitySource(l, o, r) : l \in TypedValues, o \in EqualityOperators, r \in TypedValues}
  \cup ReadsOwnName
  \cup {r.source : r \in DeclaredTwice}

InitTypes ==
  /\ driver \in {Driver(s) : s \in TypeSources}
  /\ lexer = Lexer(driver.sourceCode)
  /\ analyzer = SemanticAnalyzer
  /\ optimizer = NoOptimizer
  /\ machine = MachineOff

SpecTypes == InitTypes /\ [][NextSem]_vars

(***************************************************************************)
(* The optimizer over lists of jumps and labels: every list of up to       *)
(* MaxFlowLength different instructions of the pool.                       *)
(***************************************************************************)
FlowPool ==
  {Instr("JUMP", <<<<"L", "1">>>>), Instr("LABEL", <<<<"L", "1">>>>), Instr("JUMP", <<<<"L", "2">>>>), Instr("LABEL", <<<<"L", "2">>>>),
   Instr("JUMP_IF_FALSE", <<<<"t", "0">>, <<"L", "2">>>>), Instr("LABEL", <<<<"L", "3">>>>), Instr("OUTPUT", <<<<"t", "0">>>>)}

MaxFlowLength == 5

FlowLists ==
  UNION {{r \in [1..n -> FlowPool] : \A j, k \in 1..n : r[j] = r[k] => j = k} : n \in 1..MaxFlowLength}

InitFlow ==
  /\ optimizer \in {[NoOptimizer EXCEPT !.input = r] : r \in FlowLists}
  /\ lexer = Lexer(<<>>)
  /\ analyzer = SemanticAnalyzer
  /\ driver = Driver(<<>>)
  /\ machine = MachineOff

SpecFlow == InitFlow /\ [][NextOpt]_vars

(***************************************************************************)
(* The driver over programs that print a quotient of two integer literals. *)
(***************************************************************************)
Dividends == {6, 7, 8, 9}

\* divisors whose quotients have a finite decimal expansion
Divisors == {2, 4}

\* benvis(a / b);
PrintsQuotient(a, b) == <<"b", "e", "n", "v", "i", "s", "(">> \o DigitsOf(a) \o <<" ", "/", " ">> \o DigitsOf(b) \o <<")", ";", "\n">>

\* sahih q = a / b; benvis(q);
StoresQuotient(a, b) == <<"s", "a", "h", "i", "h", " ", "q", " ", "=", " ">> \o DigitsOf(a) \o <<" ", "/", " ">> \o DigitsOf(b) \o <<";", " ", "b", "e", "n", "v", "i", "s", "(", "q", ")", ";", "\n">>

DivSources ==
  {PrintsQuotient(a, b) : a \in Dividends, b \in Divisors}
  \cup {StoresQuotient(a, b) : a \in Dividends, b \in Divisors}

InitDiv ==
  /\ driver \in {Started([argument |-> "file", content |-> s]) : s \in DivSources}
  /\ lexer = Lexer(<<>>)
  /\ analyzer = SemanticAnalyzer
  /\ optimizer = NoOptimizer
  /\ machine = MachineOff

SpecDiv == InitDiv /\ [][Next]_vars

(***************************************************************************)
(* Properties                                                              *)
(***************************************************************************)
Contains(s, p) == IndexOf(s, p, 1) # 0

\* the stages at which the intermediate code of the driver exists
HasIntermediateCode == driver.stage \in {"generated", "optimized", "emitted", "compiled"}

\* the stages after semanticAnalyzer.analyze(ast) has run
Analyzed == driver.stage \in {"analyzed", "generated", "optimized", "emitted", "compiled"}

\* ---------------------------------------------------------------- C1
\* whether the emitter writes a line for the instruction
EmitsLine(instr) == processInstruction([CodeGenerator EXCEPT !.indentLevel = 1], instr).code # <<>>

\* the number of lines that the emitter writes for the first n instructions
RECURSIVE LinesOf(_, _)
LinesOf(instructions, n) ==
  IF n = 0 THEN 0 ELSE LinesOf(instructions, n - 1) + (IF EmitsLine(instructions[n]) THEN 1 ELSE 0)

\* the instructions of the list whose line in the text of Len(code) lines is line pc
InstructionsAt(instructions, code, pc) ==
  {j \in 1..Len(instructions) :
     /\ EmitsLine(instructions[j])
     /\ Len(code) - 2 - LinesOf(instructions, Len(instructions)) + LinesOf(instructions, j) = pc}

\* instruction j was replaced by constantFolding with a LOAD
Folded(j) == optimizer.folded[j].op = "LOAD" /\ optimizer.input[j].op # "LOAD"

\* a step of the executable of the unoptimized program over the line of a folded
\* instruction leaves in the destination the constant that the LOAD names
FoldedValueComputed ==
  (/\ driver.stage = "compiled"
   /\ ~driver.optimize
   /\ machine.status = "running"
   /\ machine'.steps = machine.steps + 1
   /\ machine'.status \in {"running", "exited"})
  => \A j \in InstructionsAt(optimizer.input, driver.outputCode, machine.pc) :
       Folded(j) =>
         toString(CellOf(machine'.frames, Arg(optimizer.input[j], 0)).v) = Arg(optimizer.folded[j], 1)

\* C1: every instruction that constantFolding replaces by LOAD dest, c computes
\* exactly c in every execution of the unoptimized program
C1_FoldedLoadIsComputedValue == [][FoldedValueComputed]_vars

\* ---------------------------------------------------------------- C2
\* C2: the executable of a program with  age (a > 5) {big} vagarna {small}  after
\* sahih a = 10  runs exactly one branch, the first: it writes big and nothing else
C2_IfElseRunsOneBranch ==
  (machine.status = "exited" /\ Contains(driver.sourceCode, <<"a", "g", "e", " ", "(", "a", " ", ">", " ", "5", ")">>))
  => machine.stdout = <<<<"b", "i", "g">>>>

\* ---------------------------------------------------------------- C3
AtomNames(a) == IF a.form = "name" THEN {a.text} ELSE {}

ExprNames(e) == AtomNames(e.l) \cup AtomNames(e.r)

SimpleNames(stmt) ==
  (IF stmt.kind \in {"assign", "init", "input"} THEN {stmt.name} ELSE {}) \cup ExprNames(stmt.expr)

\* the names that occur in a statement of the emitted text
StmtNames(stmt) ==
  IF stmt.kind = "for"
  THEN SimpleNames(stmt.loop.init[1]) \cup ExprNames(stmt.loop.cond) \cup SimpleNames(stmt.loop.incr[1])
  ELSE SimpleNames(stmt)

\* the names declared by the lines  type name;  of the emitted text
DeclaredNames(program) == {program[k].name : k \in {i \in 1..Len(program) : program[i].kind = "declare"}}

\* C3: every program variable that occurs in a statement of the text emitted for the
\* optimized code is declared by a line of the declaration block
C3_VariablesAreDeclared ==
  (driver.stage = "compiled" /\ driver.optimize)
  => \A k \in 1..Len(machine.program) :
       (StmtNames(machine.program[k]) \cap DOMAIN analyzer.variables) \subseteq DeclaredNames(machine.program)

\* ---------------------------------------------------------------- C4
\* C4: the text emitted for optimize(r) is the text emitted for optimize(optimize(r))
C4_OptimizeIsIdempotent ==
  optimizer.stage = "again" => CodeGenerate(optimizer.output) = CodeGenerate(optimizer.again)

\* ---------------------------------------------------------------- C5
ValueOps == {"LOAD", "ADD", "SUB", "MUL", "DIV", "EQ", "NEQ", "LT", "GT", "LE", "GE", "AND", "OR", "NEG"}

\* the place that an instruction writes
Destinations(instr) ==
  IF instr.op \in ValueOps \cup {"ASSIGN", "INPUT"} THEN {Arg(instr, 0)}
  ELSE IF instr.op = "DECLARE_INIT" THEN {Arg(instr, 1)}
  ELSE {}

\* the places that an instruction reads
Operands(instr) ==
  IF instr.op \in ValueOps \cup {"ASSIGN"} THEN {instr.args[i] : i \in 2..Len(instr.args)}
  ELSE IF instr.op = "DECLARE_INIT" THEN {Arg(instr, 2)}
  ELSE IF instr.op \in {"OUTPUT", "IF_BEGIN", "JUMP_IF_FALSE"} THEN {Arg(instr, 0)}
  ELSE {}

Temporaries(instructions) ==
  {t \in UNION {Destinations(instructions[k]) \cup Operands(instructions[k]) : k \in 1..Len(instructions)} :
     IsTempName(t)}

WrittenAt(instructions, t) == {k \in 1..Len(instructions) : t \in Destinations(instructions[k])}

ReadAt(instructions, t) == {k \in 1..Len(instructions) : t \in Operands(instructions[k])}

SingleAssignment(instructions) ==
  \A t \in Temporaries(instructions) :
    /\ Cardinality(WrittenAt(instructions, t)) = 1
    /\ \A w \in WrittenAt(instructions, t) : \A r \in ReadAt(instructions, t) : w < r

\* C5: in the intermediate code every temporary is the destination of exactly one
\* instruction, which precedes every instruction that reads the temporary
C5_TemporariesAssignedOnce == HasIntermediateCode => SingleAssignment(driver.intermediateCode)

\* ---------------------------------------------------------------- C6
EofAt(tokens) == {i \in 1..Len(tokens) : tokens[i].type = TT("EOF")}

\* the characters that scanToken() skips
Blank == {" ", "\r", "\t", "\n"}

\* the list that tokenize() returns holds one EOF token, the last; no list before it holds any
OneEofAtEnd ==
  /\ lexer.current <= Len(lexer.source)
  /\ EofAt(lexer.tokens) = IF lexer.done THEN {Len(lexer.tokens)} ELSE {}
  /\ lexer.done => lexer.tokens # <<>>

\* a call of scanToken() consumes a character at least, pushes one token at most, and
\* pushes none when the character is blank or opens a comment, which it consumes whole
ScanConsumes ==
  (lexer' # lexer /\ ~lexer'.done /\ lexer'.error = NoError)
  => /\ lexer'.current > lexer.current
     /\ Len(lexer'.tokens) <= Len(lexer.tokens) + 1
     /\ SubSeq(lexer'.tokens, 1, Len(lexer.tokens)) = lexer.tokens
     /\ CharAt(lexer.source, lexer.current) \in Blank \cup {"#"} => lexer'.tokens = lexer.tokens
     /\ CharAt(lexer.source, lexer.current) \in Blank => lexer'.current = lexer.current + 1
     /\ CharAt(lexer.source, lexer.current) = "#"
        => /\ ~Includes(Substring(lexer.source, lexer.current, lexer'.current), "\n")
           /\ LexIsAtEnd(lexer') \/ CharAt(lexer.source, lexer'.current) = "\n"

\* the return of tokenize() happens at the end of the source and pushes the EOF token
ReturnsAtEnd ==
  (lexer'.done /\ ~lexer.done)
  => /\ LexIsAtEnd(lexer)
     /\ lexer'.tokens = Append(lexer.tokens, Token(TT("EOF"), Str(<<>>), lexer.line, lexer.column))

\* C6: every iteration of the loop of tokenize() consumes at least one character, so
\* the loop ends; the list returned has exactly one EOF token, at its end, and no token
\* for a blank or for a character of a # comment
C6_LexerEndsWithOneEof == []OneEofAtEnd /\ [][ScanConsumes /\ ReturnsAtEnd]_vars

\* tokenize() has returned for a source that holds a word, a blank and a comment
C6_Witness ==
  /\ lexer.done
  /\ lexer.source = <<"a", " ", "#">>
  /\ Len(lexer.tokens) = 2

\* ---------------------------------------------------------------- C7
\* the Error that analyze() throws for the diagnostics of the analyzer
BatchedError(errors) ==
  <<[message |-> [e \in 1..Len(errors) |-> errors[e].message], lineNumber |-> errors[1].line]>>

\* the names of the declarations among the tokens, in the order of the source
DeclaredAt(tokens) ==
  {p \in 2..Len(tokens) :
     tokens[p].type = TT("IDENTIFIER") /\ tokens[p - 1].type \in {TT("SAHIH"), TT("ASHAR"), TT("HARF")}}

\* the declarations of a name that an earlier declaration has declared
Redeclarations(tokens) ==
  {p \in DeclaredAt(tokens) : \E q \in DeclaredAt(tokens) : q < p /\ tokens[q].value = tokens[p].value}

AlreadyDeclared(errors) ==
  {e \in 1..Len(errors) : errors[e].message.text = "Variable is already declared"}

UndeclaredThenRedeclared == <<"b", "e", "n", "v", "i", "s", "(", "x", ")", ";", "\n", "s", "a", "h", "i", "h", " ", "x", " ", "=", " ", "1", ";", "\n", "s", "a", "h", "i", "h", " ", "x", " ", "=", " ", "2", ";", "\n">>

\* C7: analyze() throws once, after the whole visit, an error that lists every
\* diagnostic in the order of the visit, and throws nothing without a diagnostic
C7_AnalyzeBatchesDiagnostics ==
  /\ analyzer.errors # <<>> => driver.stage = "failed" /\ driver.error = BatchedError(analyzer.errors)
  /\ Analyzed => analyzer.errors = <<>>
  /\ (Analyzed \/ analyzer.errors # <<>>)
     => Cardinality(AlreadyDeclared(analyzer.errors)) = Cardinality(Redeclarations(driver.tokens))
  /\ (driver.sourceCode = UndeclaredThenRedeclared /\ driver.stage = "failed")
     => analyzer.errors =
          <<[message |-> Message("Variable is not declared", <<"x">>, <<>>), line |-> 1],
            [message |-> Message("Variable is already declared", <<"x">>, <<>>), line |-> 3]>>

\* analyze() has thrown for the undeclared use followed by the redeclaration
C7_Witness ==
  /\ driver.sourceCode = UndeclaredThenRedeclared
  /\ driver.stage = "failed"
  /\ Len(analyzer.errors) = 2
  /\ Len(driver.error[1].message) = 2

\* ---------------------------------------------------------------- C8
WhileProgram == <<"s", "a", "h", "i", "h", " ", "n", " ", "=", " ", "3", ";", "\n", "v", "a", "g", "h", "t", "i", " ", "(", "n", " ", ">", " ", "0", ")", " ", "{", " ", "b", "e", "n", "v", "i", "s", "(", "n", ")", ";", " ", "n", " ", "=", " ", "n", " ", "-", " ", "1", ";", " ", "}", "\n">>

Ops(instructions) == {instructions[k].op : k \in 1..Len(instructions)}

\* C8: a program with a vaghti loop is rejected by neither lexer nor parser, its loop
\* is lowered to labels and jumps, and the loop of WhileProgram prints 3, 2, 1
C8_WhileLoopIsLowered ==
  Contains(driver.sourceCode, <<"v", "a", "g", "h", "t", "i", " ", "(">>)
  => /\ driver.stage = "failed" => analyzer.errors # <<>>
     /\ HasIntermediateCode => {"LABEL", "JUMP_IF_FALSE", "JUMP"} \subseteq Ops(driver.intermediateCode)
     /\ (driver.sourceCode = WhileProgram /\ machine.status = "exited")
        => machine.stdout = <<<<"3">>, <<"2">>, <<"1">>>>

\* ---------------------------------------------------------------- C9
ForStatements(ast) == SelectSeq(ast.statements, LAMBDA s : s.node = "ForStatement")

ForLoopStarts(instructions) == SelectSeq(instructions, LAMBDA i : i.op = "FOR_LOOP_START")

\* no FOR_LOOP_START is followed by a SCOPE_BEGIN
NoScopeWrapper(instructions) ==
  \A k \in 1..(Len(instructions) - 1) :
    instructions[k].op = "FOR_LOOP_START" => instructions[k + 1].op # "SCOPE_BEGIN"

\* C9: each For statement has its FOR_LOOP_START, whose operands come from the header
\* of the statement: the first names the variable of the initializer, and the loops
\* of two different variables have different operands; no scope wraps the body
C9_ForHeaderFromAst ==
  HasIntermediateCode
  => /\ Len(ForLoopStarts(driver.intermediateCode)) = Len(ForStatements(driver.ast))
     /\ NoScopeWrapper(driver.intermediateCode)
     /\ \A a \in 1..Len(ForStatements(driver.ast)) :
          /\ Contains(ForLoopStarts(driver.intermediateCode)[a].args[1],
                      ForStatements(driver.ast)[a].initializer.name)
          /\ \A b \in 1..Len(ForStatements(driver.ast)) :
               ForStatements(driver.ast)[a].initializer.name # ForStatements(driver.ast)[b].initializer.name
               => ForLoopStarts(driver.intermediateCode)[a].args
                    # ForLoopStarts(driver.intermediateCode)[b].args

\* ---------------------------------------------------------------- C10
\* the declarations  sahih name = ...;  that are statements, not clauses of a for header
DeclarationStatements(tokens) ==
  {p \in DeclaredAt(tokens) :
     /\ tokens[p + 1].type = TT("EQUAL")
     /\ p = 2 \/ tokens[p - 2].type # TT("LEFT_PAREN")}

\* the index of the semicolon that ends the statement of token p
RECURSIVE SemicolonAfter(_, _)
SemicolonAfter(tokens, p) ==
  IF tokens[p].type \in {TT("SEMICOLON"), TT("EOF")} THEN p ELSE SemicolonAfter(tokens, p + 1)

InitializerOf(tokens, p) == SubSeq(tokens, p + 2, SemicolonAfter(tokens, p) - 1)

\* integer literals joined by + - *
IsIntegerExpression(ts) ==
  /\ Len(ts) % 2 = 1
  /\ \A i \in 1..Len(ts) :
       IF i % 2 = 1 THEN ts[i].type = TT("INTEGER")
       ELSE ts[i].type \in {TT("PLUS"), TT("MINUS"), TT("MULTIPLY")}

\* the value of an integer expression, * binding tighter than + and -: the sum so
\* far, and the sign and the product so far of the term that literal i continues
RECURSIVE IntegerValue(_, _, _, _, _)
IntegerValue(ts, i, sum, sign, product) ==
  IF i = Len(ts) THEN sum + sign * product * ts[i].value.n
  ELSE IF ts[i + 1].type = TT("MULTIPLY") THEN IntegerValue(ts, i + 2, sum, sign, product * ts[i].value.n)
  ELSE IntegerValue(ts, i + 2, sum + sign * product * ts[i].value.n,
                    IF ts[i + 1].type = TT("PLUS") THEN 1 ELSE -1, 1)

DeclareInitOf(instructions, name) ==
  {k \in 1..Len(instructions) : instructions[k].op = "DECLARE_INIT" /\ Arg(instructions[k], 1) = name}

\* the declaration at instruction k, whose initializer of n tokens has the value v: the n
\* instructions before k are not ADD, SUB or MUL, and one of them loads v in the value operand
FoldedInitializer(instructions, k, n, v) ==
  /\ k > n
  /\ \A j \in (k - n)..(k - 1) : instructions[j].op \notin {"ADD", "SUB", "MUL"}
  /\ \E j \in (k - n)..(k - 1) :
       instructions[j] = [op |-> "LOAD", args |-> <<Arg(instructions[k], 2), toString(JsInt(v))>>]

\* C10: for a declaration whose initializer is made of integer literals and + - *, the
\* optimized code has no ADD, SUB or MUL left for the initializer, and the value operand
\* of its DECLARE_INIT is the destination of a LOAD of the value of the initializer
C10_IntegerInitializerFolds ==
  optimizer.stage = "optimized"
  => \A p \in DeclarationStatements(driver.tokens) :
       IsIntegerExpression(InitializerOf(driver.tokens, p))
       => /\ DeclareInitOf(optimizer.output, driver.tokens[p].value.s) # {}
          /\ \A k \in DeclareInitOf(optimizer.output, driver.tokens[p].value.s) :
               FoldedInitializer(optimizer.output, k, Len(InitializerOf(driver.tokens, p)),
                                 IntegerValue(InitializerOf(driver.tokens, p), 1, 0, 1, 1))

\* the optimizer has folded 2 + 3 * 4 to a LOAD of 14
C10_Witness ==
  /\ optimizer.stage = "optimized"
  /\ Contains(driver.sourceCode, <<"s", "a", "h", "i", "h", " ", "x", " ", "=", " ", "2", " ", "+", " ", "3", " ", "*", " ", "4", ";">>)
  /\ \E k \in 1..Len(optimizer.output) :
       /\ optimizer.output[k].op = "DECLARE_INIT"
       /\ \E j \in 1..(k - 1) :
            optimizer.output[j] = [op |-> "LOAD", args |-> <<Arg(optimizer.output[k], 2), <<"1", "4">>>>]

(***************************************************************************)
(* Properties of the lexer: keywords, identifier runs, positions           *)
(***************************************************************************)
\* ---------------------------------------------------------------- C11
\* the end (exclusive) of the run of identifier characters that begins at s[i]
RECURSIVE RunEnd(_, _)
RunEnd(s, i) == IF i <= Len(s) /\ isAlphaNumeric(s[i]) THEN RunEnd(s, i + 1) ELSE i

\* the maximal runs of identifier characters of a line, from s[i] on, each with its column
RECURSIVE RunsFrom(_, _)
RunsFrom(s, i) ==
  IF i > Len(s) THEN <<>>
  ELSE IF isAlpha(s[i])
       THEN <<[text |-> SubSeq(s, i, RunEnd(s, i) - 1), column |-> i]>> \o RunsFrom(s, RunEnd(s, i))
       ELSE RunsFrom(s, i + 1)

Runs(s) == RunsFrom(s, 1)

\* the token kind of a keyword lexeme
KindOf(text) ==
  CASE text = <<"s", "a", "h", "i", "h">> -> "SAHIH"
    [] text = <<"a", "s", "h", "a", "r">> -> "ASHAR"
    [] text = <<"h", "a", "r", "f">> -> "HARF"
    [] text = <<"b", "e", "g", "i", "r">> -> "BEGIR"
    [] text = <<"b", "e", "n", "v", "i", "s">> -> "BENVIS"
    [] text = <<"a", "g", "e">> -> "AGE"
    [] text = <<"v", "a", "l", "i">> -> "VALI"
    [] text = <<"v", "a", "g", "a", "r", "n", "a">> -> "VAGARNA"
    [] text = <<"b", "a", "r", "a", "y", "e">> -> "BARAYE"
    [] text = <<"v", "a", "g", "h", "t", "i">> -> "VAGHTI"
    [] text = <<"t", "a">> -> "TA"
    [] text = <<"v", "a">> -> "VA"
    [] text = <<"y", "a">> -> "YA"
    [] OTHER -> "IDENTIFIER"

KeywordKinds == {KindOf(k) : k \in KeywordLexemes}

\* the run is the lexeme of a token of its own keyword kind, at the column of the run
KeywordTokenAt(tokens, run) ==
  \E i \in 1..Len(tokens) :
    /\ tokens[i].column = run.column
    /\ tokens[i].value = Str(run.text)
    /\ tokens[i].type = KindOf(run.text)

Tokenized == lexer.done /\ lexer.error = NoError

\* C11: each of the thirteen keyword lexemes that forms a whole run of identifier
\* characters is tokenized as its own keyword kind, never as IDENTIFIER
C11_KeywordsHaveTheirKind ==
  Tokenized =>
    \A r \in 1..Len(Runs(lexer.source)) :
      Runs(lexer.source)[r].text \in KeywordLexemes => KeywordTokenAt(lexer.tokens, Runs(lexer.source)[r])

\* ---------------------------------------------------------------- C15
\* the tokens of words: identifiers and keywords
WordTokens(tokens) ==
  SelectSeq(tokens, LAMBDA t : t.type \in KeywordKinds \cup {TT("IDENTIFIER")})

\* token by token, the words are the runs, and a keyword token is a whole keyword lexeme
WordsAreRuns(words, runs) ==
  /\ Len(words) = Len(runs)
  /\ \A i \in 1..Len(words) :
       /\ i <= Len(runs) => words[i].value = Str(runs[i].text)
       /\ words[i].type \in KeywordKinds => words[i].value.s \in KeywordLexemes

\* C15: every maximal run of identifier characters gives exactly one token that covers
\* the whole run, and the token is a keyword only if the whole run is a keyword lexeme
C15_OneTokenPerRun == Tokenized => WordsAreRuns(WordTokens(lexer.tokens), Runs(lexer.source))

\* ---------------------------------------------------------------- C16
\* the 1-based line of the character at offset p (0-based) of the source
LineOf(s, p) == 1 + Cardinality({i \in 1..p : s[i] = "\n"})

\* the 1-based column of the character at offset p (0-based) of the source
ColumnOf(s, p) ==
  LET newlines == {i \in 1..p : s[i] = "\n"}
  IN IF newlines = {} THEN p + 1 ELSE p + 1 - (CHOOSE m \in newlines : \A n \in newlines : n <= m)

\* a token pushed by scanToken() carries the position of the character the scan began at
TokenAtLexeme ==
  (~lexer'.done /\ Len(lexer'.tokens) = Len(lexer.tokens) + 1)
  => LET t == lexer'.tokens[Len(lexer'.tokens)]
     IN /\ t.line = LineOf(lexer.source, lexer.current)
        /\ t.column = ColumnOf(lexer.source, lexer.current)

\* C16: every token carries the 1-based line and column of the first character of its
\* lexeme, also a string literal that spans lines and the tokens after it on its line
C16_TokensCarryTheirPosition == [][TokenAtLexeme]_vars

(***************************************************************************)
(* Properties of the parser                                                *)
(***************************************************************************)
\* ---------------------------------------------------------------- C12
\* a node written out with every grouping explicit
RECURSIVE Render(_), RenderAll(_)
Render(n) ==
  CASE n.node = "BinaryExpression" ->
         <<"(">> \o Render(n.left) \o <<" ">> \o n.operator.value.s \o <<" ">> \o Render(n.right) \o <<")">>
    [] n.node = "UnaryExpression" -> <<"(">> \o n.operator.value.s \o Render(n.right) \o <<")">>
    [] n.node = "VariableExpression" -> n.name
    [] n.node = "LiteralExpression" -> toString(n.value)
    [] n.node = "AssignmentExpression" -> <<"(">> \o n.name \o <<" ", "=", " ">> \o Render(n.value) \o <<")">>
    [] n.node = "InputExpression" -> <<"b", "e", "g", "i", "r", " ">> \o n.variable
    [] n.node = "OutputExpression" -> <<"b", "e", "n", "v", "i", "s", " ">> \o Render(n.expression)
    [] n.node = "ExpressionStatement" -> Render(n.expression) \o <<";">>
    [] n.node = "VariableDeclaration" ->
         <<"d", "e", "c", "l", "a", "r", "e", " ">> \o n.name \o <<" ", "=", " ">> \o Render(n.initializer) \o <<";">>
    [] n.node = "IfStatement" ->
         <<"i", "f", " ">> \o Render(n.condition) \o <<" ", "t", "h", "e", "n", " ">> \o Render(n.thenBranch)
         \o (IF n.elseBranch.node = "null" THEN <<>> ELSE <<" ", "e", "l", "s", "e", " ">> \o Render(n.elseBranch)) \o <<" ", "e", "n", "d">>
    [] n.node = "BlockStatement" -> <<"{", " ">> \o RenderAll(n.statements) \o <<"}">>
    [] n.node = "ForStatement" ->
         <<"f", "o", "r", " ">> \o Render(n.initializer) \o <<" ">> \o Render(n.condition) \o <<";", " ">>
         \o Render(n.increment) \o <<" ", "d", "o", " ">> \o Render(n.body)
    [] n.node = "Program" -> RenderAll(n.statements)
    [] n.node = "0" -> <<"?">>
    [] OTHER -> <<>>

RenderAll(statements) ==
  IF statements = <<>> THEN <<>> ELSE Render(Head(statements)) \o <<" ">> \o RenderAll(Tail(statements))

\* the level of a binary operator, the loosest first
Level(o) ==
  CASE o \in {<<"v", "a">>, <<"y", "a">>} -> 1
    [] o \in {<<"=", "=">>, <<"!", "=">>} -> 2
    [] o \in {<<"<">>, <<">">>, <<"<", "=">>, <<">", "=">>} -> 3
    [] o \in {<<"+">>, <<"-">>} -> 4
    [] o \in {<<"*">>, <<"/">>} -> 5

\* the grouping of a o1 b o2 c: to the left unless o2 binds tighter
Grouped(o1, o2) ==
  IF Level(o1) >= Level(o2)
  THEN <<"(", "(", "a", " ">> \o o1 \o <<" ", "b", ")", " ">> \o o2 \o <<" ", "c", ")">>
  ELSE <<"(", "a", " ">> \o o1 \o <<" ", "(", "b", " ">> \o o2 \o <<" ", "c", ")", ")">>

SyntaxAnalysed == driver.stage \in {"parsed", "failed"}

\* parse() has returned a program of one statement that renders as the text
ParsedAs(text) == driver.stage = "parsed" /\ Render(driver.ast) = text \o <<" ">>

\* C12: binary operators group by level, logical < equality < comparison < term <
\* factor < unary < primary, and operators of one level group to the left
C12_PrecedenceAndAssociativity ==
  SyntaxAnalysed =>
    /\ \A o1, o2 \in BinaryOperators :
         driver.sourceCode = TwoOperators(o1, o2) => ParsedAs(Grouped(o1, o2) \o <<";">>)
    /\ \A u \in UnaryExpressions : driver.sourceCode = u.source => ParsedAs(u.tree \o <<";">>)

\* a - b - c has been parsed
C12_Witness == driver.stage = "parsed" /\ driver.sourceCode = TwoOperators(<<"-">>, <<"-">>)

\* ---------------------------------------------------------------- C13
\* parse() has thrown a parse error that carries the position
ThrownAt(line, column) ==
  /\ driver.stage = "failed"
  /\ driver.tokens # <<>>
  /\ Len(driver.error) = 1
  /\ driver.error[1].line = line
  /\ driver.error[1].column = column

NoPlaceholder(ast) == \A i \in 1..Len(Render(ast)) : Render(ast)[i] # "?"

\* C13: a missing token makes parse() throw an error with the line and column of the
\* token met in its place, the EOF token when the input ends early; no program that
\* parse() returns holds the placeholder that primary() returns at EOF
C13_MissingTokenThrows ==
  SyntaxAnalysed =>
    /\ driver.sourceCode \in Truncations => ThrownAt(1, Len(driver.sourceCode) + 1)
    /\ \A d \in Deletions : driver.sourceCode = d.source => ThrownAt(1, d.column)
    /\ driver.stage = "parsed" => NoPlaceholder(driver.ast)

\* parse() has thrown at the end of `x = (`, where primary() returned its placeholder
C13_Witness == driver.sourceCode = <<"x", " ", "=", " ", "(">> /\ ThrownAt(1, 6)

\* ---------------------------------------------------------------- C17
\* the token VALI followed by the token AGE
ValiThenAge(tokens) ==
  \E i \in 1..(Len(tokens) - 1) :
    /\ tokens[i].type = TT("VALI")
    /\ tokens[i].value = Str(<<"v", "a", "l", "i">>)
    /\ tokens[i + 1].type = TT("AGE")

C18_AlternativeCannotStartStatement ==
  (SyntaxAnalysed /\ driver.sourceCode \in AlternativeFirst) => driver.stage = "failed"

(***************************************************************************)
(* Properties of the driver                                                *)
(***************************************************************************)
\* ---------------------------------------------------------------- C14
Stages ==
  <<"start", "read", "lexed", "parsed", "analyzed", "generated", "optimized", "emitted", "compiled">>

StageIndex(stage) == CHOOSE i \in 1..Len(Stages) : Stages[i] = stage

\* the driver goes from a stage to the next one, or out through a check or the catch block
InOrder ==
  driver'.stage # driver.stage
  => \/ driver.stage = "start" /\ driver'.stage = "rejected"
     \/ driver.stage \in {"read", "lexed", "parsed", "analyzed", "generated", "optimized"}
        /\ driver'.stage = "failed"
     \/ /\ driver.stage \in {Stages[i] : i \in 1..(Len(Stages) - 1)}
        /\ driver'.stage = Stages[StageIndex(driver.stage) + 1]

\* nothing runs after the exit
Stopped == driver.exited => driver' = driver

\* a rejected command line, a stage that threw, and a C++ compiler that is missing or
\* reports an error all end in an exit status other than 0; the first two write no file
ExitsNonZero ==
  /\ driver.stage \in {"rejected", "failed"} => driver.exited /\ driver.exitCode # 0 /\ ~driver.written
  /\ machine.status \in {"error", "missing"} => driver.exited /\ driver.exitCode # 0

\* C14: the stages run in order; the driver exits with a status other than 0 when the
\* argument or the file is missing, when a stage throws and when the C++ compiler
\* fails; after a stage throws no later stage runs and no .cpp file is written
C14_FailuresExitNonZero == []ExitsNonZero /\ [][InOrder /\ Stopped]_vars

(***************************************************************************)
(* Properties of the semantic analyzer                                     *)
(***************************************************************************)
\* analyze() has returned or thrown
SemanticallyAnalysed == driver.stage = "analyzed" \/ (driver.stage = "failed" /\ driver.ast # Null)

Reported(text) == \E e \in 1..Len(analyzer.errors) : analyzer.errors[e].message.text = text

\* ---------------------------------------------------------------- C19
\* C19: the target of an assignment is flagged initialized after the value has been
\* checked, so a value that reads the target before any initialization is reported
C19_TargetInitializedAfterValue ==
  (SemanticallyAnalysed /\ driver.sourceCode \in ReadsOwnTarget)
  => \E e \in 1..Len(analyzer.errors) :
       analyzer.errors[e].message = Message("Variable is not initialized", <<"x">>, <<>>)

\* ---------------------------------------------------------------- C20
FloatingOperand(operand) == operand \in {<<"1", ".", "5">>, <<"a">>}

FloatingType(type) == type \in {"FLOAT", "ASHAR"}

\* the type that the analyzer computes for the initializer of the declaration of x
InitializerType == getExpressionType(analyzer, driver.ast.statements[3].initializer)

\* the initializer is typed floating exactly when it should be, and the declaration is
\* reported exactly when it is a sahih initialized with a floating value
TypedAs(type, floating) ==
  /\ FloatingType(InitializerType) <=> floating
  /\ Reported("Cannot initialize variable of type with a value of type") <=> (type = <<"s", "a", "h", "i", "h">> /\ floating)

\* C20: an arithmetic expression is floating-point when an operand is, be it a float
\* literal, an ashar variable or a nested floating expression, and integer otherwise;
\* ashar a = 1.5; sahih x = a + 1; is reported as a type error
C20_ArithmeticTypeIsFloatingIfAnOperandIs ==
  SemanticallyAnalysed =>
    \A t \in NumericTypes, l \in NumericOperands, r \in NumericOperands :
      /\ \A o \in ArithmeticOperators :
           driver.sourceCode = ArithmeticSource(t, l, o, r)
           => TypedAs(t, FloatingOperand(l) \/ FloatingOperand(r))
      /\ driver.sourceCode = NestedSource(t, l, r) => TypedAs(t, FloatingOperand(l) \/ FloatingOperand(r))

(***************************************************************************)
(* Properties of the type rules                                            *)
(***************************************************************************)
\* the analyzer's type of a value of TypedValues
TypeOfValue(value) ==
  CASE value = <<"2">> -> "INTEGER"
    [] value = <<"2", ".", "5">> -> "FLOAT"
    [] value = <<"'", "b", "'">> -> "CHARACTER"
    [] value = <<"\"", "s", "\"">> -> "STRING"
    [] value = <<"i">> -> "SAHIH"
    [] value = <<"f">> -> "ASHAR"
    [] value = <<"c">> -> "HARF"

IsIntegerTyped(value) == TypeOfValue(value) \in {"INTEGER", "SAHIH"}

IsFloatTyped(value) == TypeOfValue(value) \in {"FLOAT", "ASHAR"}

IsCharTyped(value) == TypeOfValue(value) \in {"CHARACTER", "HARF"}

\* integer<-integer, float<-float, float<-integer, char<-char
Accepted(type, value) ==
  \/ type = <<"s", "a", "h", "i", "h">> /\ IsIntegerTyped(value)
  \/ type = <<"a", "s", "h", "a", "r">> /\ (IsFloatTyped(value) \/ IsIntegerTyped(value))
  \/ type = <<"h", "a", "r", "f">> /\ IsCharTyped(value)

EntryOfX == analyzer.variables[<<"x">>]

\* C29: a declaration enters its name in the table, flagged initialized, before its
\* initializer is analyzed, so sahih x = x + 1; reports neither 'not declared' nor
\* 'not initialized'; after a redeclaration the table holds the latest type
C29_DeclaredBeforeInitializer ==
  SemanticallyAnalysed =>
    /\ driver.sourceCode \in ReadsOwnName
       => /\ ~Reported("Variable is not declared")
          /\ ~Reported("Variable is not initialized")
          /\ MapHas(analyzer.variables, <<"x">>) /\ EntryOfX.initialized
    /\ \A r \in DeclaredTwice :
         driver.sourceCode = r.source
         => /\ EntryOfX.type = r.latest
            /\ DOMAIN analyzer.variables = {<<"x">>}
            /\ Reported("Variable is already declared")

\* sahih x = x + 1; has been analyzed without a diagnostic, or a second declaration
\* has replaced the type of the first
C29_Witness ==
  /\ SemanticallyAnalysed
  /\ \/ driver.sourceCode = <<"s", "a", "h", "i", "h", " ", "x", " ", "=", " ", "x", " ", "+", " ", "1", ";">> /\ analyzer.errors = <<>> /\ EntryOfX.type = "SAHIH"
     \/ driver.sourceCode = <<"h", "a", "r", "f", " ", "x", ";", " ", "s", "a", "h", "i", "h", " ", "x", " ", "=", " ", "1", ";">> /\ EntryOfX = [type |-> "SAHIH", initialized |-> TRUE]

\* ---------------------------------------------------------------- C30
\* the analyzer after lexing, parsing and analyzing a source
AnalyzerOf(source) == analyze(parse(tokenize(source).tokens).node).analyzer

CannotCompare(an) ==
  \E e \in 1..Len(an.errors) : an.errors[e].message.text = "Cannot compare values of types"

\* C30: the equality check is symmetric: a == b (or a != b) is reported as 'Cannot
\* compare' exactly when b == a is, for all literal and variable types of a and b
C30_EqualityCheckSymmetric ==
  SemanticallyAnalysed =>
    \A l \in TypedValues, o \in EqualityOperators, r \in TypedValues :
      driver.sourceCode = EqualitySource(l, o, r)
      => (CannotCompare(analyzer) <=> CannotCompare(AnalyzerOf(EqualitySource(r, o, l))))

(***************************************************************************)
(* Properties of the intermediate code and of the optimizer                *)
(***************************************************************************)
\* ---------------------------------------------------------------- C22
RECURSIVE IfsIn(_), IfsInAll(_)

\* the number of If statements of a statement
IfsIn(stmt) ==
  CASE stmt.node = "IfStatement" ->
         1 + IfsIn(stmt.thenBranch) + (IF stmt.elseBranch # Null THEN IfsIn(stmt.elseBranch) ELSE 0)
    [] stmt.node = "BlockStatement" -> IfsInAll(stmt.statements)
    [] stmt.node = "ForStatement" -> IfsIn(stmt.body)
    [] OTHER -> 0

IfsInAll(statements) ==
  IF statements = <<>> THEN 0 ELSE IfsIn(Head(statements)) + IfsInAll(Tail(statements))

\* at j: JUMP_IF_FALSE cond, Lelse ... JUMP Lend; LABEL Lelse ... LABEL Lend
IfLoweredAt(code, j) ==
  /\ code[j].op = "JUMP_IF_FALSE"
  /\ Len(code[j].args) = 2
  /\ \E m \in (j + 1)..(Len(code) - 2), n \in (j + 3)..Len(code) :
       /\ m + 1 < n
       /\ code[m].op = "JUMP"
       /\ code[m + 1] = IntermediateInstruction("LABEL", <<code[j].args[2]>>)
       /\ code[n] = IntermediateInstruction("LABEL", code[m].args)
       /\ code[m].args # <<code[j].args[2]>>

\* each label is the operand of exactly one LABEL instruction
LabelsDefinedOnce(code) ==
  \A j, k \in 1..Len(code) :
    (code[j].op = "LABEL" /\ code[k].op = "LABEL" /\ code[j].args = code[k].args) => j = k

\* C22: each If statement is lowered to the condition, JUMP_IF_FALSE cond, Lelse, the
\* then-branch, JUMP Lend, LABEL Lelse, the else-branch, LABEL Lend, with fresh labels
C22_IfLoweredToJumpsAndLabels ==
  HasIntermediateCode =>
    /\ Cardinality({j \in 1..Len(driver.intermediateCode) : IfLoweredAt(driver.intermediateCode, j)})
         = IfsInAll(driver.ast.statements)
    /\ LabelsDefinedOnce(driver.intermediateCode)

\* ---------------------------------------------------------------- C23
\* the operands of the OUTPUT instructions and the value operands of the ASSIGN ones
OutputOperands(code) == {code[k].args[1] : k \in {j \in 1..Len(code) : code[j].op = "OUTPUT"}}

AssignValues(code) == {code[k].args[2] : k \in {j \in 1..Len(code) : code[j].op = "ASSIGN"}}

\* no JUMP before instruction k without a LABEL that is a jump target in between
ReachableAt(code, k) ==
  \A j \in 1..(k - 1) :
    code[j].op = "JUMP"
    => \E m \in (j + 1)..(k - 1) : code[m].op = "LABEL" /\ code[m].args[1] \in jumpTargets(code)

Declares(code, n) == \E k \in 1..Len(code) : code[k].op = "DECLARE" /\ code[k].args[2] = n

\* C23: removeDeadCode keeps a reachable DECLARE type, n when n is the operand of an
\* OUTPUT or the value operand of an ASSIGN of the list, and drops it otherwise
C23_DeclareKeptIffUsed ==
  optimizer.stage # "new" =>
    \A k \in 1..Len(optimizer.folded) :
      (optimizer.folded[k].op = "DECLARE" /\ ReachableAt(optimizer.folded, k))
      => (Declares(removeDeadCode(optimizer.folded), optimizer.folded[k].args[2])
          <=> optimizer.folded[k].args[2]
                \in OutputOperands(optimizer.folded) \cup AssignValues(optimizer.folded))

\* ---------------------------------------------------------------- C24
\* every label that a JUMP or JUMP_IF_FALSE of the list names has its LABEL in the list
LabelIntegrity(code) ==
  \A t \in jumpTargets(code) : \E k \in 1..Len(code) : code[k] = Instr("LABEL", <<t>>)

\* the third pass retargets the JUMP at i of its input
ThreadedAt(code, i) ==
  /\ code[i].op = "JUMP"
  /\ FindLabel(code, code[i].args[1]) # 0
  /\ FindLabel(code, code[i].args[1]) < Len(code)
  /\ code[FindLabel(code, code[i].args[1]) + 1].op = "JUMP"
  /\ code[FindLabel(code, code[i].args[1]) + 1].args # code[i].args

\* C24: optimize preserves label integrity: when every label referenced in the input
\* has its LABEL, the same holds of the output, after the removal of unreferenced
\* labels and of jumps to the next instruction and after jump threading
C24_OptimizePreservesLabelIntegrity ==
  (optimizer.stage # "new" /\ LabelIntegrity(optimizer.input)) => LabelIntegrity(optimizer.output)

\* an input with integrity in which a label was dropped and a JUMP was retargeted,
\* and whose output still has a jump
C24_Witness ==
  /\ optimizer.stage = "optimized"
  /\ LabelIntegrity(optimizer.input)
  /\ \E i \in 1..Len(optimizer.input) : ThreadedAt(optimizer.input, i) /\ ReachableAt(optimizer.input, i)
  /\ \E k \in 1..Len(optimizer.input) :
       optimizer.input[k].op = "LABEL"
       /\ \A j \in 1..Len(optimizer.output) : optimizer.output[j] # optimizer.input[k]
  /\ jumpTargets(optimizer.output) # {}

\* ---------------------------------------------------------------- C25
\* C25: optimize returns a new list and leaves its input unchanged: after the call the
\* input has the same length and each of its instructions the same opcode and operands
C25_OptimizeLeavesInputUnchanged ==
  optimizer.stage # "new" =>
    /\ Len(optimizer.after) = Len(optimizer.input)
    /\ \A k \in 1..Len(optimizer.input) :
         /\ optimizer.after[k].op = optimizer.input[k].op
         /\ optimizer.after[k].args = optimizer.input[k].args

(***************************************************************************)
(* Properties of the emitted text                                          *)
(***************************************************************************)
HasOutputCode == driver.stage \in {"emitted", "compiled"}

\* the list that was given to CodeGenerator.generate
EmitterInput == IF driver.optimize THEN driver.optimizedCode ELSE driver.intermediateCode

\* ---------------------------------------------------------------- C26
\* the opcodes with a case in the switch of processInstruction
TranslatedOps ==
  {"DECLARE", "DECLARE_INIT", "ASSIGN", "LOAD", "ADD", "SUB", "MUL", "DIV", "EQ", "NEQ", "LT", "GT",
   "LE", "GE", "AND", "OR", "NEG", "INPUT", "OUTPUT", "FOR_BEGIN", "FOR_END", "JUMP_IF_FALSE",
   "SCOPE_BEGIN", "SCOPE_END", "FOR_LOOP_START", "FOR_LOOP_END", "LABEL", "JUMP"}

\* the opcodes that may leave no line
SilentOps == {"DECLARE", "INCLUDE", "MAIN_BEGIN", "MAIN_END"}

Untranslated(code) == {k \in 1..Len(code) : code[k].op \notin TranslatedOps \cup SilentOps}

\* a line without its indentation
RECURSIVE TrimStart(_)
TrimStart(line) == IF line # <<>> /\ Head(line) = " " THEN TrimStart(Tail(line)) ELSE line

\* the comment lines of the text, the heading of the declaration block apart
FallbackLines(lines) ==
  {i \in 1..Len(lines) :
     StartsWith(TrimStart(lines[i]), <<"/", "/">>) /\ TrimStart(lines[i]) # <<"/", "/", " ", "D", "e", "c", "l", "a", "r", "e", " ", "v", "a", "r", "i", "a", "b", "l", "e", "s">>}

\* the list without its instruction k
Without(code, k) == SubSeq(code, 1, k - 1) \o SubSeq(code, k + 1, Len(code))

\* C26: each instruction whose opcode the emitter does not translate (IF_BEGIN, ELSE,
\* IF_END, UNKNOWN) gives a commented-out line, and no instruction other than DECLARE,
\* INCLUDE, MAIN_BEGIN and MAIN_END is left out of the text silently
C26_UnknownOpcodeGivesFallbackLine ==
  HasOutputCode =>
    /\ Cardinality(FallbackLines(driver.outputCode)) = Cardinality(Untranslated(EmitterInput))
    /\ \A k \in 1..Len(EmitterInput) :
         EmitterInput[k].op \notin SilentOps
         => CodeGeneratorRun(Without(EmitterInput, k)).code # driver.outputCode

\* ---------------------------------------------------------------- C27
\* the text that the executable prints for the int a / b of C++
QuotientText(a, b) == DigitsOf(a \div b)

\* the DIV instruction of the input has become LOAD dest, the truncated quotient
FoldedToQuotient(a, b) ==
  \A k \in 1..Len(optimizer.input) :
    optimizer.input[k].op = "DIV"
    => optimizer.folded[k] = Instr("LOAD", <<optimizer.input[k].args[1], QuotientText(a, b)>>)

\* C27: folding a DIV of two integer constants a and b gives a LOAD of the integer
\* that the unfolded instruction yields in C++, the quotient truncated toward zero,
\* so benvis(a / b); prints the same with and without optimization
C27_FoldedDivisionIsIntegerQuotient ==
  \A a \in Dividends, b \in Divisors :
    /\ (optimizer.stage = "optimized"
        /\ driver.sourceCode \in {PrintsQuotient(a, b), StoresQuotient(a, b)})
       => FoldedToQuotient(a, b)
    /\ (machine.status = "exited" /\ driver.sourceCode = PrintsQuotient(a, b))
       => machine.stdout = <<QuotientText(a, b)>>

\* ---------------------------------------------------------------- C28
\* the names that generateTemp has returned for the program
GeneratedTemps == {<<"t">> \o DigitsOf(n) : n \in 0..(generate(driver.ast).tempCount - 1)}

\* the names that the instructions of a list declare or read into
ProgramVariables(code) ==
  {code[k].args[2] : k \in {j \in 1..Len(code) : code[j].op \in {"DECLARE", "DECLARE_INIT"}}}
  \cup {code[k].args[1] : k \in {j \in 1..Len(code) : code[j].op = "INPUT"}}

\* the first pass of the emitter over a list: no name is both in tempVars and in variables
MapsDisjoint(g) ==
  \A i \in 1..Len(g.tempVars), j \in 1..Len(g.variables) : g.tempVars[i].name # g.variables[j]

\* C28: no temporary generated for an accepted program has the name of a variable of
\* the program, so the emitter's map of temporaries and its set of variables are
\* disjoint and the declaration block declares no name twice
C28_TemporariesAreNotVariables ==
  /\ HasIntermediateCode => GeneratedTemps \cap ProgramVariables(driver.intermediateCode) = {}
  /\ HasOutputCode => MapsDisjoint(ScanLoop(CodeGenerator, EmitterInput))

====
